---- MODULE Spec2Model ----
(***************************************************************************)
(* Leave lifecycle of the Leave Management System: the approval engine     *)
(* (src/services/leaveService.ts), the manual balance adjustments          *)
(* (src/services/userService.ts) and the Slack interactivity endpoint      *)
(* (api/slack-interact.js), over a Firestore store with runTransaction.    *)
(*                                                                         *)
(* Day amounts (totalDays, balances, used amounts) are counted in          *)
(* half-days: 1 stands for the 0.5 returned for a half-day request, 2 for  *)
(* one full day.  All amounts of the program are multiples of 0.5.         *)
(***************************************************************************)
EXTENDS Integers, Sequences, FiniteSets, TLC

(* ------------------------------ bounds --------------------------------- *)
MaxBalance == 2

(* ------------------------- users of the store -------------------------- *)
Employees == {"emp1"}
Managers == {"mgr1"}
UserIds == {"emp1", "mgr1", "mgr2", "hr1"}
Procs == {"p1", "p2"}
LeaveIds == {1}

Role(u) ==
  CASE u = "emp1" -> "employee"
    [] u = "mgr1" -> "manager"
    [] u = "mgr2" -> "manager"
    [] u = "hr1" -> "hr_admin"

SlackMemberId(u) ==
  CASE u = "emp1" -> "U_emp1"
    [] u = "mgr1" -> "U_mgr1"
    [] u = "mgr2" -> "U_mgr2"
    [] u = "hr1" -> "U_hr1"

SlackUserIds == {"U_mgr1", "U_mgr2", "U_hr1", "U_unknown"}

(* --------------------------- value domains ----------------------------- *)
LeaveTypes == {"casual", "wfh", "extra_work", "menstrual"}
(* 2 February 2021, a Tuesday: a working day on either side of Greenwich *)
StartDates == {2}
Undefined == "undefined"
(* an optional number: <<>> when the argument or header is absent *)
Absent == <<>>
OverridePairs == {<<Absent, Absent>>, <<(<<2>>), Absent>>, <<Absent, (<<1>>)>>}
AdjustAmounts == {-1, 1}
InRange(x) == x >= 0 - MaxBalance /\ x <= MaxBalance

Min(a, b) == IF a <= b THEN a ELSE b

Idle == [op |-> "idle"]
Unread == [read |-> FALSE]
NoRace == [on |-> FALSE]
NoApprove == [leaveId |-> 0, cancelled |-> FALSE]
NoDecision == <<"none", FALSE>>
NoReply == [respond |-> "none"]
(* the missedClockIns and reimbursements requests as submitted, and no
   attendance record for the missed day *)
PendingRequests ==
  [missedClockIns |-> [status |-> "pending"],
   reimbursements |-> [status |-> "pending"],
   attendance |-> {}]

VARIABLES leaves, compOffBalance, annualLeaveBalance, calls,
          lastDecision, credited, race, preApprove, reply, collections

vars == <<leaves, compOffBalance, annualLeaveBalance, calls,
          lastDecision, credited, race, preApprove, reply, collections>>

(* --------------------------- pure functions ---------------------------- *)
(* Dates are day numbers of a calendar whose day 1 is Monday 1 February
   2021: days 1..28 are February, days 29..59 are March 2021. *)
DayOfWeek(d) == d % 7
(* day 0 is 31 January 2021, day -30 is 1 January *)
StartOfMonth(d) == IF d <= 0 THEN 0 - 30 ELSE IF d <= 28 THEN 1 ELSE 29
StartOfNextMonth(d) == IF d <= 0 THEN 1 ELSE IF d <= 28 THEN 29 ELSE 60

(* new Date("YYYY-MM-DD") is midnight UTC of that day.  In a time zone east
   of Greenwich (UTC offset >= 0) its local date is the same day, in a time
   zone west of Greenwich it is the evening of the day before. *)
TimeZones == {"east", "west"}
LocalDay(d, tz) == IF tz = "west" THEN d - 1 ELSE d
(* is midnight UTC of day d at or after local midnight of day m? *)
NotBeforeLocalMidnight(d, m, tz) == IF tz = "west" THEN d > m ELSE d >= m

RECURSIVE WeekdaysFrom(_, _)
WeekdaysFrom(current, end) ==
  IF current > end THEN 0
  ELSE (IF DayOfWeek(current) # 0 /\ DayOfWeek(current) # 6 THEN 1 ELSE 0)
       + WeekdaysFrom(current + 1, end)

(* start and end are midnight UTC of the two dates; getDay() gives the day
   of the week of the local date of current *)
calculateLeaveDays(startDate, endDate, isHalfDay, tz) ==
  IF isHalfDay THEN 1
  ELSE 2 * WeekdaysFrom(LocalDay(startDate, tz), LocalDay(endDate, tz))

EmpDoc(u) ==
  [compOffBalance |-> compOffBalance[u],
   annualLeaveBalance |-> annualLeaveBalance[u]]

LeaveExists(id) == id \in 1..Len(leaves)

(* the `x || 0` of the override amounts *)
OrZero(x) == IF x = Absent THEN 0 ELSE x[1]

NoDoc == [exists |-> FALSE]

(* result of a transaction body: the documents it writes, or the error it
   throws *)
Written(leave, emp) == [err |-> "none", leave |-> leave, emp |-> emp]
Thrown(e, leave, emp) == [err |-> e, leave |-> leave, emp |-> emp]

(* leaveService.ts hrApproval, "Standard deductive leaves" without override *)
(* variant: annual leave is drawn first, comp-off covers the rest *)
StandardDeduction_AnnualFirst(emp, totalDays, sources) ==
  LET annualLeaveUsed ==
        IF sources.annualLeave /\ emp.annualLeaveBalance > 0
        THEN Min(emp.annualLeaveBalance, totalDays) ELSE 0
      remainingDays == totalDays - annualLeaveUsed
      compOffUsed ==
        IF sources.compOff /\ remainingDays > 0
        THEN Min(emp.compOffBalance, remainingDays) ELSE 0
  IN [compOffUsed |-> compOffUsed, annualLeaveUsed |-> annualLeaveUsed]

StandardDeduction(emp, totalDays, sources) ==
  LET compOffUsed ==
        IF sources.compOff /\ emp.compOffBalance > 0
        THEN Min(emp.compOffBalance, totalDays) ELSE 0
      remainingDays == totalDays - compOffUsed
      annualLeaveUsed ==
        IF sources.annualLeave /\ remainingDays > 0
        THEN Min(emp.annualLeaveBalance, remainingDays) ELSE 0
  IN [compOffUsed |-> compOffUsed, annualLeaveUsed |-> annualLeaveUsed]

(* variant: the manager's approval already takes the days from the balances *)
managerDecisionTxn_DeductsEarly(leave, emp, approved) ==
  IF ~approved
  THEN Written([leave EXCEPT !.status = "rejected"], emp)
  ELSE IF leave.leaveType = "extra_work"
  THEN IF emp = NoDoc
       THEN Thrown("Employee not found", leave, emp)
       ELSE Written([leave EXCEPT !.status = "approved"],
                    [emp EXCEPT !.compOffBalance = @ + leave.totalDays])
  ELSE Written([leave EXCEPT !.status = "pending_hr"],
               IF emp = NoDoc THEN emp
               ELSE [emp EXCEPT !.annualLeaveBalance = @ - Min(@, leave.totalDays)])

(* body of the transaction of managerDecision; emp is the employee document
   (read only on the extra_work approve path) *)
managerDecisionTxn(leave, emp, approved) ==
  IF ~approved
  THEN Written([leave EXCEPT !.status = "rejected"], emp)
  ELSE IF leave.leaveType = "extra_work"
  THEN IF emp = NoDoc
       THEN Thrown("Employee not found", leave, emp)
       ELSE Written([leave EXCEPT !.status = "approved"],
                    [emp EXCEPT !.compOffBalance = @ + leave.totalDays])
  ELSE Written([leave EXCEPT !.status = "pending_hr"], emp)

(* variant: the override amounts are capped at the balances *)
hrApprovalTxn_ClampedOverride(leave, emp, approved, overrideCompOff, overrideAnnualLeave) ==
  IF emp = NoDoc
  THEN Written([leave EXCEPT !.status = IF ~approved THEN "rejected" ELSE "approved"], emp)
  ELSE IF ~approved
  THEN Written([leave EXCEPT !.status = "rejected"], emp)
  ELSE IF leave.leaveType = "wfh"
  THEN Written([leave EXCEPT !.status = "approved"], emp)
  ELSE IF leave.leaveType = "extra_work"
  THEN Written([leave EXCEPT !.status = "approved"],
               [emp EXCEPT !.compOffBalance = @ + leave.totalDays])
  ELSE LET hrOverride == overrideCompOff # Absent \/ overrideAnnualLeave # Absent
           std == StandardDeduction(emp, leave.totalDays, leave.selectedSources)
           compOffUsed ==
             IF hrOverride THEN Min(OrZero(overrideCompOff), emp.compOffBalance)
             ELSE IF leave.leaveType \notin {"menstrual", "bereavement"}
             THEN std.compOffUsed ELSE 0
           annualLeaveUsed ==
             IF hrOverride THEN Min(OrZero(overrideAnnualLeave), emp.annualLeaveBalance)
             ELSE IF leave.leaveType \notin {"menstrual", "bereavement"}
             THEN std.annualLeaveUsed ELSE 0
       IN Written([leave EXCEPT !.status = "approved",
                                !.compOffUsed = compOffUsed,
                                !.annualLeaveUsed = annualLeaveUsed,
                                !.hrOverride = hrOverride],
                  [emp EXCEPT !.compOffBalance = @ - compOffUsed,
                              !.annualLeaveBalance = @ - annualLeaveUsed])

(* body of the transaction of hrApproval *)
hrApprovalTxn(leave, emp, approved, overrideCompOff, overrideAnnualLeave) ==
  IF emp = NoDoc
  THEN Written([leave EXCEPT !.status = IF ~approved THEN "rejected" ELSE "approved"], emp)
  ELSE IF ~approved
  THEN Written([leave EXCEPT !.status = "rejected"], emp)
  ELSE IF leave.leaveType = "wfh"
  THEN Written([leave EXCEPT !.status = "approved"], emp)
  ELSE IF leave.leaveType = "extra_work"
  THEN Written([leave EXCEPT !.status = "approved"],
               [emp EXCEPT !.compOffBalance = @ + leave.totalDays])
  ELSE LET hrOverride == overrideCompOff # Absent \/ overrideAnnualLeave # Absent
           std == StandardDeduction(emp, leave.totalDays, leave.selectedSources)
           compOffUsed ==
             IF hrOverride THEN OrZero(overrideCompOff)
             ELSE IF leave.leaveType \notin {"menstrual", "bereavement"}
             THEN std.compOffUsed ELSE 0
           annualLeaveUsed ==
             IF hrOverride THEN OrZero(overrideAnnualLeave)
             ELSE IF leave.leaveType \notin {"menstrual", "bereavement"}
             THEN std.annualLeaveUsed ELSE 0
       IN Written([leave EXCEPT !.status = "approved",
                                !.compOffUsed = compOffUsed,
                                !.annualLeaveUsed = annualLeaveUsed,
                                !.hrOverride = hrOverride],
                  [emp EXCEPT !.compOffBalance = @ - compOffUsed,
                              !.annualLeaveBalance = @ - annualLeaveUsed])

(* variant: the cancellation gives the used days back whatever the status *)
cancelLeaveRequestTxn_AlwaysRestore(leave, emp) ==
  Written([leave EXCEPT !.status = "cancelled"],
          IF emp # NoDoc
          THEN [emp EXCEPT !.compOffBalance = @ + leave.compOffUsed,
                           !.annualLeaveBalance = @ + leave.annualLeaveUsed]
          ELSE emp)

(* variant: the cancellation of an approved extra_work request takes the
   credited comp-off back *)
cancelLeaveRequestTxn_TakesCreditBack(leave, emp) ==
  Written([leave EXCEPT !.status = "cancelled"],
          IF leave.status = "approved" /\ emp # NoDoc
          THEN [emp EXCEPT !.compOffBalance =
                             @ + leave.compOffUsed
                               - (IF leave.leaveType = "extra_work"
                                  THEN leave.totalDays ELSE 0),
                           !.annualLeaveBalance = @ + leave.annualLeaveUsed]
          ELSE emp)

(* variant: the cancellation gives back the comp-off only *)
cancelLeaveRequestTxn_CompOffOnly(leave, emp) ==
  Written([leave EXCEPT !.status = "cancelled"],
          IF leave.status = "approved" /\ emp # NoDoc
          THEN [emp EXCEPT !.compOffBalance = @ + leave.compOffUsed]
          ELSE emp)

(* body of the transaction of cancelLeaveRequest *)
cancelLeaveRequestTxn(leave, emp) ==
  Written([leave EXCEPT !.status = "cancelled"],
          IF leave.status = "approved" /\ emp # NoDoc
          THEN [emp EXCEPT !.compOffBalance = @ + leave.compOffUsed,
                           !.annualLeaveBalance = @ + leave.annualLeaveUsed]
          ELSE emp)

(* body of the transaction of the Slack endpoint's HR approval *)
slackHrApproveTxn(ld, emp) ==
  IF ld.leaveType \in {"wfh", "menstrual", "bereavement"}
  THEN Written([ld EXCEPT !.status = "approved"], emp)
  ELSE IF ld.leaveType = "extra_work"
  THEN Written([ld EXCEPT !.status = "approved"],
               IF emp # NoDoc
               THEN [emp EXCEPT !.compOffBalance = @ + ld.totalDays]
               ELSE emp)
  ELSE IF emp = NoDoc
  THEN Thrown("Employee not found", ld, emp)
  ELSE LET d == StandardDeduction(emp, ld.totalDays, ld.selectedSources)
       IN Written([ld EXCEPT !.status = "approved",
                             !.compOffUsed = d.compOffUsed,
                             !.annualLeaveUsed = d.annualLeaveUsed],
                  [emp EXCEPT !.compOffBalance = @ - d.compOffUsed,
                              !.annualLeaveBalance = @ - d.annualLeaveUsed])

(* ----------------------- Firestore runTransaction ---------------------- *)
(* A transaction reads its documents, computes its writes from what it
   read, and commits only if the documents it read are still the committed
   ones; otherwise the body is run again on a fresh read. *)
TxnOps == {"managerDecision", "hrApproval", "cancelLeaveRequest", "slack"}

(* does the body read the employee document on the path it takes? *)
ReadsEmployee(op, leave, approved) ==
  CASE op = "managerDecision" -> approved /\ leave.leaveType = "extra_work"
    [] op = "hrApproval" -> TRUE
    [] op = "cancelLeaveRequest" -> leave.status = "approved"
    [] op = "slack" -> leave.leaveType \notin {"wfh", "menstrual", "bereavement"}

TxnRead(c) ==
  LET leave == leaves[c.leaveId]
  IN [c EXCEPT !.pc = "commit",
               !.snapLeave = leave,
               !.snapEmp = IF ReadsEmployee(c.op, leave, c.approved)
                           THEN EmpDoc(leave.employeeId) ELSE Unread]

(* variant: a commit that never looks at what was written since the read *)
TxnValid_Blind(c) == TRUE

TxnValid(c) ==
  /\ leaves[c.leaveId] = c.snapLeave
  /\ c.snapEmp = Unread \/ c.snapEmp = EmpDoc(c.snapLeave.employeeId)

TxnBody(c) ==
  LET emp == IF c.snapEmp = Unread THEN EmpDoc(c.snapLeave.employeeId) ELSE c.snapEmp
  IN CASE c.op = "managerDecision" -> managerDecisionTxn(c.snapLeave, emp, c.approved)
       [] c.op = "hrApproval" ->
            hrApprovalTxn(c.snapLeave, emp, c.approved, c.overrideCompOff, c.overrideAnnualLeave)
       [] c.op = "cancelLeaveRequest" -> cancelLeaveRequestTxn(c.snapLeave, emp)
       [] c.op = "slack" -> slackHrApproveTxn(c.snapLeave, emp)

NewCall(op, approvalType, leaveId, approved, oc, oa, sigOk) ==
  [op |-> op, pc |-> "read", approvalType |-> approvalType,
   leaveId |-> leaveId, approved |-> approved,
   overrideCompOff |-> oc, overrideAnnualLeave |-> oa,
   sigOk |-> sigOk, snapLeave |-> Unread, snapEmp |-> Unread]

managerDecisionCall(leaveId, approved) ==
  NewCall("managerDecision", "manager", leaveId, approved, Absent, Absent, TRUE)
hrApprovalCall(leaveId, approved, overrideCompOff, overrideAnnualLeave) ==
  NewCall("hrApproval", "hr", leaveId, approved, overrideCompOff, overrideAnnualLeave, TRUE)
cancelLeaveRequestCall(leaveId) ==
  NewCall("cancelLeaveRequest", "cancel", leaveId, FALSE, Absent, Absent, TRUE)

IsHrApprove(c) ==
  /\ c.op \in {"hrApproval", "slack"}
  /\ c.approvalType = "hr"
  /\ c.pc \in {"read", "commit"}
  /\ c.approved

(* what the caller of an engine operation gets back: "none" when the
   promise resolves, else the message of the error it rejects with *)
EngineResponse(c) ==
  IF ~LeaveExists(c.leaveId) THEN "Leave request not found"
  ELSE TxnBody(TxnRead(c)).err

(* ------------------------- history variables --------------------------- *)
(* lastDecision[l]: the engine decision that was the last write to request l.
   credited[l]: the comp-off credited so far for request l.
   preApprove: the employee's balances right before the HR approval that
     was the last step to change the store; cancelled once the next step
     cancelled that request.
   race: two HR approvals in flight at once on pending_hr requests of one
     employee; base is the committed state when the second one started,
     done the sessions whose approval has committed since.
   reply: the request and the response of the Slack endpoint when the last
     step was a request it answered without a write.
   collections: the other collections of the store: the missedClockIns and
     the reimbursements request with their status, and the attendance
     records. *)
RaceStart(p, c) ==
  LET others == {q \in Procs \ {p} :
                   /\ calls[q] # Idle
                   /\ IsHrApprove(calls[q])
                   /\ leaves[calls[q].leaveId].status = "pending_hr"
                   /\ leaves[calls[q].leaveId].employeeId = leaves[c.leaveId].employeeId}
  IN IF others # {} /\ leaves[c.leaveId].status = "pending_hr"
     THEN LET q == CHOOSE q \in others : TRUE
          IN [on |-> TRUE, baseLeaves |-> leaves,
              baseEmp |-> EmpDoc(leaves[c.leaveId].employeeId),
              a |-> [calls[q] EXCEPT !.pc = "commit", !.snapLeave = Unread, !.snapEmp = Unread],
              b |-> [c EXCEPT !.pc = "commit", !.snapLeave = Unread, !.snapEmp = Unread],
              pa |-> q, pb |-> p, done |-> {}]
     ELSE race

RaceAfterCommit(p) ==
  IF race.on /\ p \in {race.pa, race.pb} \ race.done
  THEN [race EXCEPT !.done = @ \cup {p}]
  ELSE NoRace

(* the writes of a committed transaction t whose body returned r *)
Commit(t, r) ==
  LET e == t.snapLeave.employeeId
      pre == EmpDoc(e)
      credit == IF t.snapLeave.leaveType = "extra_work" /\ t.op # "cancelLeaveRequest"
                THEN r.emp.compOffBalance - pre.compOffBalance ELSE 0
  IN /\ InRange(r.emp.compOffBalance)
     /\ InRange(r.emp.annualLeaveBalance)
     /\ leaves' = [leaves EXCEPT ![t.leaveId] = r.leave]
     /\ compOffBalance' = [compOffBalance EXCEPT ![e] = r.emp.compOffBalance]
     /\ annualLeaveBalance' = [annualLeaveBalance EXCEPT ![e] = r.emp.annualLeaveBalance]
     /\ lastDecision' = [lastDecision EXCEPT ![t.leaveId] =
                          IF t.op \in {"managerDecision", "hrApproval"}
                          THEN <<t.op, t.approved>> ELSE NoDecision]
     /\ credited[t.leaveId] + credit <= MaxBalance
     /\ credited' = [credited EXCEPT ![t.leaveId] = @ + credit]
     /\ reply' = NoReply
     /\ UNCHANGED collections
     /\ preApprove' = IF IsHrApprove(t)
                      THEN [leaveId |-> t.leaveId, cancelled |-> FALSE, emp |-> pre]
                      ELSE IF /\ t.op = "cancelLeaveRequest"
                              /\ preApprove.leaveId = t.leaveId
                              /\ ~preApprove.cancelled
                      THEN [preApprove EXCEPT !.cancelled = TRUE]
                      ELSE NoApprove

(* runTransaction as one atomic step: read, body, commit *)
RunTransaction(c) ==
  LET t == TxnRead(c)
      r == TxnBody(t)
  IN /\ LeaveExists(c.leaveId)
     /\ r.err = "none"
     /\ Commit(t, r)

(* ------------------------------- Init ---------------------------------- *)
(* register() creates a user with compOffBalance 0 and annualLeaveBalance
   14; HR then sets balances with the manual adjustments.  The model starts
   from an employee whose balances HR has adjusted into the modelled range. *)
Init ==
  /\ leaves = <<>>
  /\ compOffBalance \in [Employees -> 0..MaxBalance]
  /\ annualLeaveBalance \in [Employees -> 0..MaxBalance]
  /\ calls = [p \in Procs |-> Idle]
  /\ lastDecision = <<>>
  /\ credited = <<>>
  /\ race = NoRace
  /\ preApprove = NoApprove
  /\ reply = NoReply
  /\ collections = PendingRequests

(* ------------------------- submitLeaveRequest -------------------------- *)
(* employee is the User object the caller passes (balances as the caller
   last saw them); the store is only read for the menstrual check *)
(* the leaveRequest record built from the form *)
NewLeave(formData, employee, tz) ==
  [employeeId |-> employee.uid,
   leaveType |-> formData.leaveType,
   startDate |-> formData.startDate,
   endDate |-> IF formData.leaveType = "menstrual"
               THEN formData.startDate ELSE formData.endDate,
   totalDays |-> calculateLeaveDays(formData.startDate, formData.endDate,
                                    formData.isHalfDay, tz),
   isHalfDay |-> formData.isHalfDay,
   selectedSources |-> [compOff |-> formData.useCompOff,
                        annualLeave |-> formData.useAnnualLeave],
   compOffUsed |-> 0,
   annualLeaveUsed |-> 0,
   managerId |-> formData.managerId,
   status |-> "pending_manager",
   hrOverride |-> FALSE]

(* the documents the menstrual check finds: startOfMonth is local midnight
   of the first day of the month of the local date of new Date(startDate),
   endOfMonth one month later, and the stored start dates are compared
   with them as instants *)
ActiveMenstrual(formData, employee, tz) ==
  LET startOfMonth == StartOfMonth(LocalDay(formData.startDate, tz))
      endOfMonth == StartOfNextMonth(LocalDay(formData.startDate, tz))
  IN {i \in 1..Len(leaves) :
        /\ leaves[i].employeeId = employee.uid
        /\ leaves[i].leaveType = "menstrual"
        /\ leaves[i].status \in {"approved", "pending_manager", "pending_hr"}
        /\ NotBeforeLocalMidnight(leaves[i].startDate, startOfMonth, tz)
        /\ ~NotBeforeLocalMidnight(leaves[i].startDate, endOfMonth, tz)}

(* variant: a submission that never looks at the balances *)
SubmitResult_NoBalanceCheck(formData, employee, tz) ==
  IF /\ formData.leaveType = "menstrual"
     /\ ActiveMenstrual(formData, employee, tz) # {}
  THEN [err |-> "You have already applied for Menstrual Leave this month."]
  ELSE [err |-> "none", leave |-> NewLeave(formData, employee, tz)]

SubmitResult(formData, employee, tz) ==
  LET totalDays == calculateLeaveDays(formData.startDate, formData.endDate,
                                      formData.isHalfDay, tz)
      availableCompOff == IF formData.useCompOff THEN employee.compOffBalance ELSE 0
      availableAnnual == IF formData.useAnnualLeave THEN employee.annualLeaveBalance ELSE 0
  IN IF /\ formData.leaveType \notin {"wfh", "extra_work", "menstrual", "bereavement"}
        /\ availableCompOff + availableAnnual < totalDays
     THEN [err |-> "Insufficient leave balance for the selected leave sources"]
     ELSE IF /\ formData.leaveType = "menstrual"
             /\ ActiveMenstrual(formData, employee, tz) # {}
     THEN [err |-> "You have already applied for Menstrual Leave this month."]
     ELSE [err |-> "none", leave |-> NewLeave(formData, employee, tz)]

(* the forms submitted: the leave form preselects annual leave as the
   source; the source selection is varied for the types that deduct *)
FormData ==
  [leaveType : {"casual"},
   startDate : StartDates,
   endDate : StartDates,
   isHalfDay : BOOLEAN,
   managerId : Managers,
   useCompOff : BOOLEAN,
   useAnnualLeave : BOOLEAN]
  \cup
  [leaveType : LeaveTypes \ {"casual"},
   startDate : StartDates,
   endDate : StartDates,
   isHalfDay : BOOLEAN,
   managerId : Managers,
   useCompOff : {FALSE},
   useAnnualLeave : {TRUE}]

EmployeeObjects ==
  [uid : Employees, compOffBalance : 0..MaxBalance, annualLeaveBalance : 0..MaxBalance]

submitLeaveRequest(formData, employee, tz) ==
  LET r == SubmitResult(formData, employee, tz)
  IN /\ Len(leaves) < Cardinality(LeaveIds)
     /\ r.err = "none"
     /\ leaves' = Append(leaves, r.leave)
     /\ lastDecision' = Append(lastDecision, NoDecision)
     /\ credited' = Append(credited, 0)
     /\ reply' = NoReply
     /\ UNCHANGED collections
     /\ preApprove' = NoApprove
     /\ UNCHANGED <<compOffBalance, annualLeaveBalance, calls, race>>

(* ------------------ engine decisions, one atomic step ------------------ *)
(* actor is the signed-in user who makes the call; managerDecision takes
   only a display name and never looks at who calls *)
managerDecision(leaveId, approved, actor) ==
  /\ RunTransaction(managerDecisionCall(leaveId, approved))
  /\ UNCHANGED <<calls, race>>

hrApproval(leaveId, approved, overrideCompOff, overrideAnnualLeave) ==
  /\ RunTransaction(hrApprovalCall(leaveId, approved, overrideCompOff, overrideAnnualLeave))
  /\ UNCHANGED <<calls, race>>

cancelLeaveRequest(leaveId) ==
  /\ RunTransaction(cancelLeaveRequestCall(leaveId))
  /\ UNCHANGED <<calls, race>>

(* ------------------- manual balance adjustments ------------------------ *)
(* adjustCompOffBalance / adjustAnnualLeaveBalance: getDoc, then updateDoc
   of the balance computed from that read (no transaction) *)
AdjustOps == {"adjustCompOffBalance", "adjustAnnualLeaveBalance"}

AdjustResult(op, userId, amount) ==
  LET previousBalance == IF op = "adjustCompOffBalance"
                         THEN compOffBalance[userId] ELSE annualLeaveBalance[userId]
      newBalance == previousBalance + amount
  IN IF newBalance < 0
     THEN [err |-> "Cannot reduce balance below 0"]
     ELSE [err |-> "none", newBalance |-> newBalance]

adjustBalance(p, op, userId, amount) ==
  LET r == AdjustResult(op, userId, amount)
  IN /\ calls[p] = Idle
     /\ r.err = "none"
     /\ calls' = [calls EXCEPT ![p] =
                    [op |-> op, pc |-> "updateDoc", userId |-> userId,
                     newBalance |-> r.newBalance]]
     /\ reply' = NoReply
     /\ UNCHANGED collections
     /\ preApprove' = NoApprove
     /\ UNCHANGED <<leaves, compOffBalance, annualLeaveBalance, lastDecision, credited, race>>

adjustUpdateDoc(p) ==
  LET c == calls[p]
  IN /\ c # Idle
     /\ c.op \in AdjustOps
     /\ InRange(c.newBalance)
     /\ IF c.op = "adjustCompOffBalance"
        THEN /\ compOffBalance' = [compOffBalance EXCEPT ![c.userId] = c.newBalance]
             /\ UNCHANGED annualLeaveBalance
        ELSE /\ annualLeaveBalance' = [annualLeaveBalance EXCEPT ![c.userId] = c.newBalance]
             /\ UNCHANGED compOffBalance
     /\ calls' = [calls EXCEPT ![p] = Idle]
     /\ race' = NoRace
     /\ reply' = NoReply
     /\ UNCHANGED collections
     /\ preApprove' = NoApprove
     /\ UNCHANGED <<leaves, lastDecision, credited>>

(* ------------------ Slack interactivity endpoint ----------------------- *)
ReplayWindow == 300
Abs(x) == IF x < 0 THEN 0 - x ELSE x

(* the HMAC-SHA256 hex digest: a fixed-length value determined by the key
   and the signed string *)
Hmac(key, baseString) == <<"hmac", key, baseString>>
BaseString(timestamp, body) == <<"v0", timestamp, body>>
SignatureOf(key, timestamp, body) == <<"v0=">> \o Hmac(key, BaseString(timestamp, body))
(* Buffer.from(signature || ''): a missing header is the empty string *)
BufferFrom(signature) == IF signature = Absent THEN <<>> ELSE signature
(* Number(header): NaN for a missing header, and every comparison with NaN
   is false *)
IsNaN(timestamp) == timestamp = Absent

(* crypto.timingSafeEqual throws on buffers of different length *)
timingSafeEqual(a, b) ==
  IF Len(a) # Len(b) THEN [threw |-> TRUE, equal |-> FALSE]
  ELSE [threw |-> FALSE, equal |-> a = b]

verifySlackSignature(signingSecret, signature, timestamp, body) ==
  IF signingSecret = Undefined THEN [threw |-> FALSE, equal |-> TRUE]
  ELSE timingSafeEqual(SignatureOf(signingSecret, timestamp, body), BufferFrom(signature))

(* variant: no replay window *)
Authenticate_NoReplayWindow(req) ==
  LET v == verifySlackSignature(req.signingSecret, req.signature, req.timestamp, req.body)
  IN IF req.signingSecret = Undefined THEN "pass"
     ELSE IF v.threw THEN "pass"
     ELSE IF ~v.equal THEN "403 Invalid signature"
     ELSE "pass"

(* the first try block of handler: a 403 response, or "pass"; an exception
   thrown in it is caught and the request goes on *)
Authenticate(req) ==
  LET v == verifySlackSignature(req.signingSecret, req.signature, req.timestamp, req.body)
  IN IF ~IsNaN(req.timestamp) /\ Abs(req.timestamp[1]) > ReplayWindow
     THEN "403 Request too old"
     ELSE IF req.signingSecret = Undefined THEN "pass"
     ELSE IF v.threw THEN "pass"
     ELSE IF ~v.equal THEN "403 Invalid signature"
     ELSE "pass"

(* is the signature header the HMAC of the request under the secret? *)
SignatureMatches(req) ==
  req.signature = SignatureOf(req.signingSecret, req.timestamp, req.body)

(* variant: every Slack id is taken for the HR admin's *)
UsersWithSlackId_Anyone(sid) == {"hr1"}

UsersWithSlackId(sid) == {u \in UserIds : SlackMemberId(u) = sid}

Bodies(ids) ==
  [payload : {"block_actions"},
   leaveId : ids,
   decision : {"approve", "reject"},
   approvalType : {"manager", "hr"},
   slackUserId : SlackUserIds]
  \cup
  [payload : {"none", "view_submission"},
   leaveId : {1}, decision : {"approve"}, approvalType : {"manager"},
   slackUserId : {"U_hr1"}]

(* signature headers a sender can produce for a request *)
SignatureHeader(kind, timestamp, body) ==
  CASE kind = "valid" -> SignatureOf("secret", timestamp, body)
    [] kind = "forged" -> SignatureOf("guess", timestamp, body)
    [] kind = "short" -> <<"v0=">>
    [] kind = "missing" -> Absent

(* timestamp header (seconds away from now), configured secret, signature *)
AuthInputs ==
  {[timestamp |-> <<0>>, signingSecret |-> Undefined, kind |-> "missing"],
   [timestamp |-> <<0>>, signingSecret |-> "secret", kind |-> "valid"],
   [timestamp |-> <<0>>, signingSecret |-> "secret", kind |-> "forged"],
   [timestamp |-> <<0>>, signingSecret |-> "secret", kind |-> "short"],
   [timestamp |-> <<0>>, signingSecret |-> "secret", kind |-> "missing"],
   [timestamp |-> <<ReplayWindow + 1>>, signingSecret |-> "secret", kind |-> "valid"],
   [timestamp |-> <<0 - (ReplayWindow + 1)>>, signingSecret |-> Undefined, kind |-> "missing"],
   [timestamp |-> Absent, signingSecret |-> "secret", kind |-> "valid"]}

Request(method, auth, body) ==
  [method |-> method, timestamp |-> auth.timestamp,
   signingSecret |-> auth.signingSecret,
   signature |-> SignatureHeader(auth.kind, auth.timestamp, body), body |-> body]

Requests ==
  {Request("POST", au, b) : au \in AuthInputs, b \in Bodies(LeaveIds)}
  \cup {Request("GET", au, b) : au \in AuthInputs, b \in Bodies({})}

(* the checks of the manager stage and of the HR stage on the request
   document read and the user found for the Slack id: the message the
   handler answers with, or "none" when it goes on to the decision *)
(* variant: the manager stage does not look at who clicks *)
ManagerStageGuard_AnyActor(leave, actingUserId) ==
  IF leave.status # "pending_manager" THEN "200 already processed"
  ELSE "none"

ManagerStageGuard(leave, actingUserId) ==
  IF leave.managerId # actingUserId THEN "200 not the assigned manager"
  ELSE IF leave.status # "pending_manager" THEN "200 already processed"
  ELSE "none"

(* variant: the HR stage does not look at the status *)
HrStageGuard_AnyStatus(leave, actingUserId) ==
  IF Role(actingUserId) # "hr_admin" THEN "200 only HR admins"
  ELSE "none"

HrStageGuard(leave, actingUserId) ==
  IF Role(actingUserId) # "hr_admin" THEN "200 only HR admins"
  ELSE IF leave.status # "pending_hr" THEN "200 already processed"
  ELSE "none"

(* handler up to its first write: the response it returns, or the write it
   goes on to make *)
Decide(req) ==
  LET b == req.body
      acting == UsersWithSlackId(b.slackUserId)
      actingUserId == CHOOSE u \in acting : TRUE
      isApprove == b.decision = "approve"
      proceed(pc) == [respond |-> "none", pc |-> pc, isApprove |-> isApprove]
      respond(r) == [respond |-> r]
  IN IF req.method # "POST" THEN respond("405 Method not allowed")
     ELSE IF Authenticate(req) # "pass" THEN respond(Authenticate(req))
     ELSE IF b.payload = "none" THEN respond("400 No payload")
     ELSE IF b.payload # "block_actions" THEN respond("200 ok")
     ELSE IF ~LeaveExists(b.leaveId) THEN respond("200 Leave request not found")
     ELSE IF acting = {} THEN respond("200 not linked")
     ELSE IF b.approvalType = "manager"
     THEN IF ManagerStageGuard(leaves[b.leaveId], actingUserId) # "none"
          THEN respond(ManagerStageGuard(leaves[b.leaveId], actingUserId))
          ELSE proceed("updateDoc")
     ELSE IF b.approvalType = "hr"
     THEN IF HrStageGuard(leaves[b.leaveId], actingUserId) # "none"
          THEN respond(HrStageGuard(leaves[b.leaveId], actingUserId))
          ELSE IF ~isApprove THEN proceed("updateDoc")
          ELSE proceed("read")
     ELSE respond("200 ok")

(* the HTTP status code of a response *)
StatusCode(respond) ==
  CASE respond = "405 Method not allowed" -> 405
    [] respond \in {"403 Request too old", "403 Invalid signature"} -> 403
    [] respond = "400 No payload" -> 400
    [] OTHER -> 200

(* a request the handler answers before any write *)
slackRespond(req) ==
  /\ Decide(req).respond # "none"
  /\ reply' = [respond |-> Decide(req).respond, req |-> req]
  /\ UNCHANGED collections
  /\ UNCHANGED <<leaves, compOffBalance, annualLeaveBalance, calls,
                 lastDecision, credited, race, preApprove>>

slackInteract(p, req) ==
  LET d == Decide(req)
      c == [NewCall("slack", req.body.approvalType, req.body.leaveId, d.isApprove,
                    Absent, Absent,
                    req.signingSecret = Undefined \/ SignatureMatches(req))
              EXCEPT !.pc = d.pc]
  IN /\ calls[p] = Idle
     /\ d.respond = "none"
     /\ calls' = [calls EXCEPT ![p] = c]
     /\ race' = IF IsHrApprove(c) THEN RaceStart(p, c) ELSE race
     /\ reply' = NoReply
     /\ UNCHANGED collections
     /\ preApprove' = NoApprove
     /\ UNCHANGED <<leaves, compOffBalance, annualLeaveBalance, lastDecision, credited>>

(* updateDoc(leaveRef, {status: newStatus, ...}) of the manager decision and
   of the HR rejection: a plain write of the status *)
slackUpdateDoc(p) ==
  LET c == calls[p]
      newStatus == IF c.approvalType = "manager" /\ c.approved THEN "pending_hr" ELSE "rejected"
  IN /\ c # Idle
     /\ c.op = "slack"
     /\ c.pc = "updateDoc"
     /\ leaves' = [leaves EXCEPT ![c.leaveId].status = newStatus]
     /\ calls' = [calls EXCEPT ![p] = Idle]
     /\ lastDecision' = [lastDecision EXCEPT ![c.leaveId] = NoDecision]
     /\ race' = NoRace
     /\ reply' = NoReply
     /\ UNCHANGED collections
     /\ preApprove' = NoApprove
     /\ UNCHANGED <<compOffBalance, annualLeaveBalance, credited>>

(* runTransaction of the HR approval, as one atomic step; a body that throws
   ends the request (caught, answered 200) without a write *)
slackRunTransaction(p) ==
  LET c == calls[p]
      t == TxnRead(c)
      r == TxnBody(t)
  IN /\ c # Idle
     /\ c.op = "slack"
     /\ c.pc = "read"
     /\ calls' = [calls EXCEPT ![p] = Idle]
     /\ IF r.err = "none"
        THEN Commit(t, r)
        ELSE /\ reply' = NoReply
             /\ UNCHANGED collections
             /\ preApprove' = NoApprove
             /\ UNCHANGED <<leaves, compOffBalance, annualLeaveBalance, lastDecision, credited>>
     /\ UNCHANGED race

(* ------------------------------- Next ---------------------------------- *)
(* engine operations are atomic steps; an adjustment or a Slack request in
   flight (between its read and its write) interleaves with them *)
Session == {"p1"}

Next ==
  \/ \E f \in FormData, e \in EmployeeObjects, tz \in TimeZones :
       submitLeaveRequest(f, e, tz)
  \/ \E l \in LeaveIds, a \in BOOLEAN, u \in {"mgr1", "mgr2"} : managerDecision(l, a, u)
  \/ \E l \in LeaveIds, a \in BOOLEAN, o \in OverridePairs : hrApproval(l, a, o[1], o[2])
  \/ \E l \in LeaveIds : cancelLeaveRequest(l)
  \/ \E p \in Session, op \in AdjustOps, u \in Employees, amt \in AdjustAmounts :
       adjustBalance(p, op, u, amt)
  \/ \E p \in Session : adjustUpdateDoc(p)
  \/ \E p \in Session, req \in Requests : slackInteract(p, req)
  \/ \E p \in Session : slackUpdateDoc(p)
  \/ \E p \in Session : slackRunTransaction(p)

Spec == Init /\ [][Next]_vars

(* --------- the transactions step by step (read, retry, commit) --------- *)
(* SpecTxn spells out runTransaction for the HR approvals: two sessions and
   Slack requests work at once on the pending_hr requests of one employee *)
RaceLeaveIds == {1, 2}

hrApprovalBegin(p, leaveId, approved, overrideCompOff, overrideAnnualLeave) ==
  LET c == hrApprovalCall(leaveId, approved, overrideCompOff, overrideAnnualLeave)
  IN /\ calls[p] = Idle
     /\ LeaveExists(leaveId)
     \* the approvals page offers the HR decision on pending_hr requests
     /\ leaves[leaveId].status = "pending_hr"
     /\ calls' = [calls EXCEPT ![p] = TxnRead(c)]
     /\ race' = IF IsHrApprove(c) THEN RaceStart(p, c) ELSE race
     /\ reply' = NoReply
     /\ UNCHANGED collections
     /\ preApprove' = NoApprove
     /\ UNCHANGED <<leaves, compOffBalance, annualLeaveBalance, lastDecision, credited>>

(* transaction.get of the Slack HR approval *)
slackTxnRead(p) ==
  /\ calls[p] # Idle
  /\ calls[p].op = "slack"
  /\ calls[p].pc = "read"
  /\ calls' = [calls EXCEPT ![p] = TxnRead(calls[p])]
  /\ reply' = NoReply
  /\ UNCHANGED collections
  /\ preApprove' = NoApprove
  /\ UNCHANGED <<leaves, compOffBalance, annualLeaveBalance, lastDecision, credited, race>>

(* the body ran on a stale read: runTransaction runs it again *)
TxnRetry(p) ==
  /\ calls[p] # Idle
  /\ calls[p].op \in TxnOps
  /\ calls[p].pc = "commit"
  /\ ~TxnValid(calls[p])
  /\ calls' = [calls EXCEPT ![p] = TxnRead(calls[p])]
  /\ reply' = NoReply
  /\ UNCHANGED collections
  /\ UNCHANGED <<leaves, compOffBalance, annualLeaveBalance, lastDecision,
                 credited, race, preApprove>>

TxnCommit(p) ==
  LET c == calls[p]
      r == TxnBody(c)
  IN /\ c # Idle
     /\ c.op \in TxnOps
     /\ c.pc = "commit"
     /\ TxnValid(c)
     /\ calls' = [calls EXCEPT ![p] = Idle]
     /\ IF r.err = "none"
        THEN /\ Commit(c, r)
             /\ race' = IF IsHrApprove(c) THEN RaceAfterCommit(p) ELSE NoRace
        ELSE /\ reply' = NoReply
             /\ UNCHANGED collections
             /\ preApprove' = NoApprove
             /\ UNCHANGED <<leaves, compOffBalance, annualLeaveBalance,
                            lastDecision, credited, race>>

RichEmployee == [uid |-> "emp1", compOffBalance |-> MaxBalance,
                 annualLeaveBalance |-> MaxBalance]

RaceForms ==
  {g \in FormData :
     \/ g.leaveType = "casual" /\ ~g.isHalfDay /\ g.useCompOff /\ g.useAnnualLeave
     \/ g.leaveType = "casual" /\ g.isHalfDay /\ ~g.useCompOff /\ g.useAnnualLeave
     \/ g.leaveType = "extra_work" /\ g.isHalfDay}

PendingHrLeaves ==
  {[NewLeave(f, RichEmployee, tz) EXCEPT !.status = "pending_hr"] :
     f \in RaceForms, tz \in TimeZones}

InitTxn ==
  /\ leaves \in {<<a>> : a \in PendingHrLeaves}
                \cup {<<a, b>> : a \in PendingHrLeaves, b \in PendingHrLeaves}
  /\ compOffBalance \in [Employees -> 0..MaxBalance]
  /\ annualLeaveBalance \in [Employees -> 0..MaxBalance]
  /\ calls = [p \in Procs |-> Idle]
  /\ lastDecision = [i \in 1..Len(leaves) |-> <<"managerDecision", TRUE>>]
  /\ credited = [i \in 1..Len(leaves) |-> 0]
  /\ race = NoRace
  /\ preApprove = NoApprove
  /\ reply = NoReply
  /\ collections = PendingRequests

HrRequests ==
  {Request("POST", au, b) :
     au \in {x \in AuthInputs : x.timestamp = <<0>> /\ x.kind = "valid"},
     b \in {x \in Bodies(RaceLeaveIds) : x.payload = "block_actions" /\ x.approvalType = "hr"
                                          /\ x.slackUserId = "U_hr1"}}

NextTxn ==
  \/ \E p \in Procs, l \in RaceLeaveIds, a \in BOOLEAN :
       hrApprovalBegin(p, l, a, Absent, Absent)
  \/ \E p \in Procs, req \in HrRequests : slackInteract(p, req)
  \/ \E p \in Procs : slackUpdateDoc(p)
  \/ \E p \in Procs : slackTxnRead(p)
  \/ \E p \in Procs : TxnRetry(p)
  \/ \E p \in Procs : TxnCommit(p)

SpecTxn == InitTxn /\ [][NextTxn]_vars

(* ------------- the Slack endpoint with its responses recorded ---------- *)
(* SpecGateway: requests to the Slack endpoint on one leave request in any
   status, the response of each request answered without a write kept in
   reply *)
GatewayLeaves ==
  {[NewLeave(f, RichEmployee, tz) EXCEPT !.status = st] :
     tz \in TimeZones,
     f \in {g \in FormData : (g.isHalfDay <=> g.leaveType = "extra_work")
                               /\ (g.useCompOff => g.useAnnualLeave)},
     st \in {"pending_manager", "pending_hr", "approved", "rejected"}}

InitGateway ==
  /\ leaves \in {<<a>> : a \in GatewayLeaves}
  /\ compOffBalance = [e \in Employees |-> MaxBalance]
  /\ annualLeaveBalance = [e \in Employees |-> MaxBalance]
  /\ calls = [p \in Procs |-> Idle]
  /\ lastDecision = <<NoDecision>>
  /\ credited = <<0>>
  /\ race = NoRace
  /\ preApprove = NoApprove
  /\ reply = NoReply
  /\ collections = PendingRequests

NextGateway ==
  \/ \E req \in Requests : slackRespond(req)
  \/ \E p \in Session, req \in Requests : slackInteract(p, req)
  \/ \E p \in Session : slackUpdateDoc(p)
  \/ \E p \in Session : slackRunTransaction(p)

SpecGateway == InitGateway /\ [][NextGateway]_vars

(* --------------- submitLeaveRequest step by step ----------------------- *)
(* SpecSubmit: menstrual requests of one employee, submitted from two
   sessions; submitLeaveRequest is its getDocs check followed by its addDoc,
   and the engine decisions move the requests through their statuses *)
SubmitLeaveIds == {1, 2}
(* 15 February, 1 March and 15 March 2021 *)
MenstrualDates == {15, 29, 43}

MenstrualForms ==
  [leaveType : {"menstrual"},
   startDate : MenstrualDates,
   endDate : MenstrualDates,
   isHalfDay : {FALSE},
   managerId : Managers,
   useCompOff : {FALSE},
   useAnnualLeave : {TRUE}]

(* submitLeaveRequest up to the addDoc: the balance check and the menstrual
   check on the documents read by getDocs *)
submitLeaveRequestCheck(p, formData, employee, tz) ==
  LET r == SubmitResult(formData, employee, tz)
  IN /\ calls[p] = Idle
     /\ Len(leaves) < Cardinality(SubmitLeaveIds)
     /\ r.err = "none"
     /\ calls' = [calls EXCEPT ![p] = [op |-> "submitLeaveRequest", pc |-> "addDoc",
                                       leave |-> r.leave]]
     /\ reply' = NoReply
     /\ UNCHANGED collections
     /\ preApprove' = NoApprove
     /\ UNCHANGED <<leaves, compOffBalance, annualLeaveBalance, lastDecision,
                    credited, race>>

submitLeaveRequestAddDoc(p) ==
  /\ calls[p] # Idle
  /\ calls[p].op = "submitLeaveRequest"
  /\ Len(leaves) < Cardinality(SubmitLeaveIds)
  /\ leaves' = Append(leaves, calls[p].leave)
  /\ lastDecision' = Append(lastDecision, NoDecision)
  /\ credited' = Append(credited, 0)
  /\ calls' = [calls EXCEPT ![p] = Idle]
  /\ reply' = NoReply
  /\ UNCHANGED collections
  /\ preApprove' = NoApprove
  /\ UNCHANGED <<compOffBalance, annualLeaveBalance, race>>

InitSubmit ==
  /\ leaves = <<>>
  /\ compOffBalance = [e \in Employees |-> MaxBalance]
  /\ annualLeaveBalance = [e \in Employees |-> MaxBalance]
  /\ calls = [p \in Procs |-> Idle]
  /\ lastDecision = <<>>
  /\ credited = <<>>
  /\ race = NoRace
  /\ preApprove = NoApprove
  /\ reply = NoReply
  /\ collections = PendingRequests

NextSubmit ==
  \/ \E p \in Procs, f \in MenstrualForms, tz \in TimeZones :
       submitLeaveRequestCheck(p, f, RichEmployee, tz)
  \/ \E p \in Procs : submitLeaveRequestAddDoc(p)
  \/ \E l \in SubmitLeaveIds, a \in BOOLEAN, u \in Managers : managerDecision(l, a, u)
  \/ \E l \in SubmitLeaveIds, a \in BOOLEAN : hrApproval(l, a, Absent, Absent)
  \/ \E l \in SubmitLeaveIds : cancelLeaveRequest(l)

SpecSubmit == InitSubmit /\ [][NextSubmit]_vars

(* ----------------- the calls, one await after the other ----------------- *)
(* Every operation of the services followed await by await up to what its
   caller gets back: the write (addDoc, runTransaction or updateDoc), the
   reads of the recipients' Slack ids, the notification, the audit-log
   entry, and the return.  A read of the store and the POST of the
   notification can fail. *)
CallOps == {"submitLeaveRequest", "managerDecision", "hrApproval", "cancelLeaveRequest"}
             \cup AdjustOps

(* variant: the notification is sent first and the write made afterwards *)
PhaseAfter_NotifyFirst(op, pc) ==
  IF op \in AdjustOps
  THEN (IF pc = "call" THEN "updateDoc"
        ELSE IF pc = "updateDoc" THEN "createAuditLog" ELSE "return")
  ELSE IF op = "cancelLeaveRequest"
  THEN (IF pc = "call" THEN "txn" ELSE "return")
  ELSE IF pc = "call" THEN "send"
  ELSE IF pc = "send" THEN (IF op = "submitLeaveRequest" THEN "addDoc" ELSE "txn")
  ELSE IF pc = "lookup" THEN "send"
  ELSE "return"

(* the await that follows pc in the body of op *)
PhaseAfter(op, pc) ==
  IF op \in AdjustOps
  THEN (IF pc = "call" THEN "updateDoc"
        ELSE IF pc = "updateDoc" THEN "createAuditLog" ELSE "return")
  ELSE IF op = "cancelLeaveRequest"
  THEN (IF pc = "call" THEN "txn" ELSE "return")
  ELSE IF pc = "call" THEN (IF op = "submitLeaveRequest" THEN "addDoc" ELSE "txn")
  ELSE IF pc \in {"addDoc", "txn"} THEN (IF op = "managerDecision" THEN "lookup" ELSE "send")
  ELSE IF pc = "lookup" THEN "send"
  ELSE "return"

Advance(n) == [n EXCEPT !.pc = PhaseAfter(n.op, n.pc)]

(* a call in flight: committed once its write is made, delivered the fate
   of its notification, auditLogs the entries it has added to the audit
   log, error what the promise rejects with *)
InFlight(op, call) ==
  [op |-> op, pc |-> "call", call |-> call, committed |-> FALSE,
   delivered |-> "unsent", auditLogs |-> <<>>, error |-> "none"]

Rejected(n, error) == [n EXCEPT !.pc = "return", !.error = error]

submitLeaveRequestStart(p, formData, employee, tz) ==
  LET r == SubmitResult(formData, employee, tz)
      n == InFlight("submitLeaveRequest",
                    [formData |-> formData, employee |-> employee, tz |-> tz])
  IN /\ calls[p] = Idle
     /\ Len(leaves) < Cardinality(LeaveIds)
     /\ calls' = [calls EXCEPT ![p] =
                    IF r.err = "none"
                    THEN Advance([n EXCEPT !.call = [formData |-> formData,
                                                     employee |-> employee,
                                                     tz |-> tz,
                                                     leave |-> r.leave]])
                    ELSE Rejected(n, r.err)]
     /\ reply' = NoReply
     /\ UNCHANGED collections
     /\ preApprove' = NoApprove
     /\ UNCHANGED <<leaves, compOffBalance, annualLeaveBalance, lastDecision,
                    credited, race>>

(* managerDecision, hrApproval or cancelLeaveRequest is called *)
decisionStart(p, c) ==
  /\ calls[p] = Idle
  /\ calls' = [calls EXCEPT ![p] = Advance(InFlight(c.op, c))]
  /\ reply' = NoReply
  /\ UNCHANGED collections
  /\ preApprove' = NoApprove
  /\ UNCHANGED <<leaves, compOffBalance, annualLeaveBalance, lastDecision,
                 credited, race>>

(* adjustCompOffBalance / adjustAnnualLeaveBalance up to the check of the
   balance computed from the document read *)
adjustStart(p, op, userId, amount) ==
  LET r == AdjustResult(op, userId, amount)
      n == InFlight(op, [userId |-> userId])
  IN /\ calls[p] = Idle
     /\ calls' = [calls EXCEPT ![p] =
                    IF r.err = "none"
                    THEN Advance([n EXCEPT !.call = [userId |-> userId,
                                                     previousBalance |-> r.newBalance - amount,
                                                     newBalance |-> r.newBalance]])
                    ELSE Rejected(n, r.err)]
     /\ reply' = NoReply
     /\ UNCHANGED collections
     /\ preApprove' = NoApprove
     /\ UNCHANGED <<leaves, compOffBalance, annualLeaveBalance, lastDecision,
                    credited, race>>

addDoc(p) ==
  LET n == calls[p]
  IN /\ n # Idle
     /\ n.op = "submitLeaveRequest"
     /\ n.pc = "addDoc"
     /\ Len(leaves) < Cardinality(LeaveIds)
     /\ leaves' = Append(leaves, n.call.leave)
     /\ lastDecision' = Append(lastDecision, NoDecision)
     /\ credited' = Append(credited, 0)
     /\ calls' = [calls EXCEPT ![p] = Advance([n EXCEPT !.committed = TRUE])]
     /\ reply' = NoReply
     /\ UNCHANGED collections
     /\ preApprove' = NoApprove
     /\ UNCHANGED <<compOffBalance, annualLeaveBalance, race>>

runTransaction(p) ==
  LET n == calls[p]
  IN /\ n # Idle
     /\ n.op \in {"managerDecision", "hrApproval", "cancelLeaveRequest"}
     /\ n.pc = "txn"
     /\ IF EngineResponse(n.call) = "none"
        THEN /\ Commit(TxnRead(n.call), TxnBody(TxnRead(n.call)))
             /\ calls' = [calls EXCEPT ![p] = Advance([n EXCEPT !.committed = TRUE])]
        ELSE /\ calls' = [calls EXCEPT ![p] = Rejected(n, EngineResponse(n.call))]
             /\ reply' = NoReply
             /\ UNCHANGED collections
             /\ preApprove' = NoApprove
             /\ UNCHANGED <<leaves, compOffBalance, annualLeaveBalance,
                            lastDecision, credited>>
     /\ UNCHANGED race

(* updateDoc of the balance computed by the adjustment *)
updateDoc(p) ==
  LET n == calls[p]
  IN /\ n # Idle
     /\ n.op \in AdjustOps
     /\ n.pc = "updateDoc"
     /\ InRange(n.call.newBalance)
     /\ IF n.op = "adjustCompOffBalance"
        THEN /\ compOffBalance' = [compOffBalance EXCEPT ![n.call.userId] = n.call.newBalance]
             /\ UNCHANGED annualLeaveBalance
        ELSE /\ annualLeaveBalance' = [annualLeaveBalance EXCEPT ![n.call.userId] = n.call.newBalance]
             /\ UNCHANGED compOffBalance
     /\ calls' = [calls EXCEPT ![p] = Advance([n EXCEPT !.committed = TRUE])]
     /\ reply' = NoReply
     /\ UNCHANGED collections
     /\ preApprove' = NoApprove
     /\ UNCHANGED <<leaves, lastDecision, credited, race>>

(* createAuditLog: the adjustment adds its entry to the audit log *)
createAuditLog(p) ==
  LET n == calls[p]
      log == [action |-> IF n.op = "adjustCompOffBalance"
                         THEN "COMP_OFF_ADJUSTMENT" ELSE "ANNUAL_LEAVE_ADJUSTMENT",
              targetUserId |-> n.call.userId,
              previousValue |-> n.call.previousBalance,
              newValue |-> n.call.newBalance]
  IN /\ n # Idle
     /\ n.op \in AdjustOps
     /\ n.pc = "createAuditLog"
     /\ calls' = [calls EXCEPT ![p] = Advance([n EXCEPT !.auditLogs = Append(@, log)])]
     /\ reply' = NoReply
     /\ UNCHANGED collections
     /\ preApprove' = NoApprove
     /\ UNCHANGED <<leaves, compOffBalance, annualLeaveBalance, lastDecision,
                    credited, race>>

(* managerDecision's getDoc of the employee and getHRSlackIds: awaited
   outside any try, so a read that fails rejects the call *)
lookupRecipients(p, found) ==
  LET n == calls[p]
  IN /\ n # Idle
     /\ n.op \in CallOps
     /\ n.pc = "lookup"
     /\ calls' = [calls EXCEPT ![p] =
                    IF found THEN Advance(n)
                    ELSE Rejected(n, "Failed to get document")]
     /\ reply' = NoReply
     /\ UNCHANGED collections
     /\ preApprove' = NoApprove
     /\ UNCHANGED <<leaves, compOffBalance, annualLeaveBalance, lastDecision,
                    credited, race>>

(* sendSlackNotification: the POST sits in a try whose catch only logs *)
sendSlackNotification(p, delivered) ==
  LET n == calls[p]
  IN /\ n # Idle
     /\ n.op \in CallOps
     /\ n.pc = "send"
     /\ calls' = [calls EXCEPT ![p] =
                    Advance([n EXCEPT !.delivered = IF delivered THEN "sent" ELSE "failed"])]
     /\ reply' = NoReply
     /\ UNCHANGED collections
     /\ preApprove' = NoApprove
     /\ UNCHANGED <<leaves, compOffBalance, annualLeaveBalance, lastDecision,
                    credited, race>>

(* the promise settles and the caller goes on *)
callReturn(p) ==
  /\ calls[p] # Idle
  /\ calls[p].op \in CallOps
  /\ calls[p].pc = "return"
  /\ calls' = [calls EXCEPT ![p] = Idle]
  /\ reply' = NoReply
  /\ UNCHANGED collections
  /\ preApprove' = NoApprove
  /\ UNCHANGED <<leaves, compOffBalance, annualLeaveBalance, lastDecision,
                 credited, race>>

NextCalls ==
  \/ \E p \in Session, f \in FormData, e \in EmployeeObjects, tz \in TimeZones :
       submitLeaveRequestStart(p, f, e, tz)
  \/ \E p \in Session, l \in LeaveIds, a \in BOOLEAN :
       decisionStart(p, managerDecisionCall(l, a))
  \/ \E p \in Session, l \in LeaveIds, a \in BOOLEAN, o \in OverridePairs :
       decisionStart(p, hrApprovalCall(l, a, o[1], o[2]))
  \/ \E p \in Session, l \in LeaveIds : decisionStart(p, cancelLeaveRequestCall(l))
  \/ \E p \in Session, op \in AdjustOps, u \in Employees, amt \in AdjustAmounts :
       adjustStart(p, op, u, amt)
  \/ \E p \in Session : addDoc(p)
  \/ \E p \in Session : runTransaction(p)
  \/ \E p \in Session : updateDoc(p)
  \/ \E p \in Session : createAuditLog(p)
  \/ \E p \in Session, found \in BOOLEAN : lookupRecipients(p, found)
  \/ \E p \in Session, delivered \in BOOLEAN : sendSlackNotification(p, delivered)
  \/ \E p \in Session : callReturn(p)
  \/ \E p \in Session, req \in Requests : slackInteract(p, req)
  \/ \E p \in Session : slackUpdateDoc(p)
  \/ \E p \in Session : slackRunTransaction(p)

SpecCalls == Init /\ [][NextCalls]_vars

(* ------------------------- calculateLeaveDays -------------------------- *)
(* calculateLeaveDays applied to the dates of the first days of February
   2021 (1 February is a Monday) in a browser on either side of Greenwich *)
LastDate == 9
Dates == 1..LastDate

calculateLeaveDaysCall(p, startDate, endDate, isHalfDay, tz) ==
  /\ calls' = [calls EXCEPT ![p] =
                 [op |-> "calculateLeaveDays", startDate |-> startDate,
                  endDate |-> endDate, isHalfDay |-> isHalfDay, tz |-> tz,
                  days |-> calculateLeaveDays(startDate, endDate, isHalfDay, tz)]]
  /\ reply' = NoReply
  /\ UNCHANGED collections
  /\ preApprove' = NoApprove
  /\ UNCHANGED <<leaves, compOffBalance, annualLeaveBalance, lastDecision,
                 credited, race>>

NextDays ==
  \E p \in Session, startDate \in Dates, endDate \in Dates,
     isHalfDay \in BOOLEAN, tz \in TimeZones :
    calculateLeaveDaysCall(p, startDate, endDate, isHalfDay, tz)

SpecDays == Init /\ [][NextDays]_vars

(* ------------------- the ledger without adjustments -------------------- *)
(* the engine and the Slack endpoint on the requests of an employee who
   starts from known balances that no manual adjustment touches *)
InitialBalance == MaxBalance - 1

InitLedger ==
  /\ leaves = <<>>
  /\ compOffBalance = [e \in Employees |-> InitialBalance]
  /\ annualLeaveBalance = [e \in Employees |-> InitialBalance]
  /\ calls = [p \in Procs |-> Idle]
  /\ lastDecision = <<>>
  /\ credited = <<>>
  /\ race = NoRace
  /\ preApprove = NoApprove
  /\ reply = NoReply
  /\ collections = PendingRequests

NextLedger ==
  \/ \E f \in FormData, e \in EmployeeObjects, tz \in TimeZones :
       submitLeaveRequest(f, e, tz)
  \/ \E l \in LeaveIds, a \in BOOLEAN, u \in Managers : managerDecision(l, a, u)
  \/ \E l \in LeaveIds, a \in BOOLEAN, o \in OverridePairs : hrApproval(l, a, o[1], o[2])
  \/ \E l \in LeaveIds : cancelLeaveRequest(l)
  \/ \E p \in Session, req \in Requests : slackInteract(p, req)
  \/ \E p \in Session : slackUpdateDoc(p)
  \/ \E p \in Session : slackRunTransaction(p)

SpecLedger == InitLedger /\ [][NextLedger]_vars

(* ------------------------ cancellations at once ------------------------ *)
(* two HR sessions cancel the requests of an employee, each cancellation a
   transaction of its own, on a request that HR has approved *)
ApprovedStates ==
  {[r |-> hrApprovalTxn([NewLeave(f, e, tz) EXCEPT !.status = "pending_hr"], e, TRUE,
                        o[1], o[2]),
    pre |-> e] :
     f \in FormData, e \in EmployeeObjects, tz \in TimeZones, o \in OverridePairs}

InitCancel ==
  \E a \in {x \in ApprovedStates : InRange(x.r.emp.compOffBalance)
                                    /\ InRange(x.r.emp.annualLeaveBalance)} :
    /\ leaves = <<a.r.leave>>
    /\ compOffBalance = [e \in Employees |-> a.r.emp.compOffBalance]
    /\ annualLeaveBalance = [e \in Employees |-> a.r.emp.annualLeaveBalance]
    /\ calls = [p \in Procs |-> Idle]
    /\ lastDecision = <<(<<"hrApproval", TRUE>>)>>
    /\ credited = <<IF a.r.leave.leaveType = "extra_work" THEN a.r.leave.totalDays ELSE 0>>
    /\ race = NoRace
    /\ preApprove = [leaveId |-> 1, cancelled |-> FALSE, emp |-> a.pre]
    /\ reply = NoReply
    /\ collections = PendingRequests

cancelLeaveRequestBegin(p, leaveId) ==
  /\ calls[p] = Idle
  /\ LeaveExists(leaveId)
  /\ calls' = [calls EXCEPT ![p] = TxnRead(cancelLeaveRequestCall(leaveId))]
  /\ reply' = NoReply
  /\ UNCHANGED collections
  /\ UNCHANGED <<leaves, compOffBalance, annualLeaveBalance, lastDecision,
                 credited, race, preApprove>>

NextCancel ==
  \/ \E p \in Procs, l \in LeaveIds : cancelLeaveRequestBegin(p, l)
  \/ \E p \in Procs : TxnRetry(p)
  \/ \E p \in Procs : TxnCommit(p)

SpecCancel == InitCancel /\ [][NextCancel]_vars

(* ------------- an adjustment next to the engine's decisions ------------ *)
(* SpecAdjust: an HR session adjusts a balance of the employee, its getDoc
   and its updateDoc two steps, while HR approvals and cancellations of the
   employee's request commit *)
InitAdjust ==
  /\ leaves \in {<<a>> : a \in PendingHrLeaves}
  /\ compOffBalance \in [Employees -> 0..MaxBalance]
  /\ annualLeaveBalance \in [Employees -> 0..MaxBalance]
  /\ calls = [p \in Procs |-> Idle]
  /\ lastDecision = <<(<<"managerDecision", TRUE>>)>>
  /\ credited = <<0>>
  /\ race = NoRace
  /\ preApprove = NoApprove
  /\ reply = NoReply
  /\ collections = PendingRequests

NextAdjust ==
  \/ \E p \in Session, op \in AdjustOps, u \in Employees, amt \in AdjustAmounts :
       adjustStart(p, op, u, amt)
  \/ \E p \in Session : updateDoc(p)
  \/ \E p \in Session : createAuditLog(p)
  \/ \E p \in Session : callReturn(p)
  \/ \E l \in LeaveIds, o \in OverridePairs : hrApproval(l, TRUE, o[1], o[2])
  \/ \E l \in LeaveIds : cancelLeaveRequest(l)

SpecAdjust == InitAdjust /\ [][NextAdjust]_vars

(* -------------- missed clock-ins and reimbursements -------------------- *)
(* SpecRequests: managers and HR decide, from two sessions, on one
   missedClockIns request and one reimbursements request; an approval is
   its getDoc with the status check, then its writes, a rejection is one
   updateDoc *)
leaveStore == <<leaves, compOffBalance, annualLeaveBalance, lastDecision,
                credited, race, preApprove, reply>>

(* getDoc(reqRef) and the check of the status it read *)
approveMissedClockIn(p) ==
  /\ calls[p] = Idle
  /\ collections.missedClockIns.status = "pending"
  /\ calls' = [calls EXCEPT ![p] = [op |-> "approveMissedClockIn", pc |-> "setDoc"]]
  /\ UNCHANGED <<collections, leaveStore>>

(* setDoc(doc(db, 'attendance', docId), ...) *)
approveMissedClockInSetDoc(p) ==
  /\ calls[p] # Idle
  /\ calls[p].op = "approveMissedClockIn"
  /\ calls[p].pc = "setDoc"
  /\ collections' = [collections EXCEPT !.attendance = @ \cup {"emp1_date"}]
  /\ calls' = [calls EXCEPT ![p].pc = "updateDoc"]
  /\ UNCHANGED leaveStore

(* updateDoc(reqRef, {status: 'approved', ...}) *)
approveMissedClockInUpdateDoc(p) ==
  /\ calls[p] # Idle
  /\ calls[p].op = "approveMissedClockIn"
  /\ calls[p].pc = "updateDoc"
  /\ collections' = [collections EXCEPT !.missedClockIns.status = "approved"]
  /\ calls' = [calls EXCEPT ![p] = Idle]
  /\ UNCHANGED leaveStore

rejectMissedClockIn ==
  /\ collections' = [collections EXCEPT !.missedClockIns.status = "rejected"]
  /\ UNCHANGED <<calls, leaveStore>>

approveReimbursement(p) ==
  /\ calls[p] = Idle
  /\ collections.reimbursements.status = "pending"
  /\ calls' = [calls EXCEPT ![p] = [op |-> "approveReimbursement", pc |-> "updateDoc"]]
  /\ UNCHANGED <<collections, leaveStore>>

(* updateDoc(reqRef, {status: 'pending_hr', ...}) *)
approveReimbursementUpdateDoc(p) ==
  /\ calls[p] # Idle
  /\ calls[p].op = "approveReimbursement"
  /\ calls[p].pc = "updateDoc"
  /\ collections' = [collections EXCEPT !.reimbursements.status = "pending_hr"]
  /\ calls' = [calls EXCEPT ![p] = Idle]
  /\ UNCHANGED leaveStore

rejectReimbursement ==
  /\ collections' = [collections EXCEPT !.reimbursements.status = "rejected"]
  /\ UNCHANGED <<calls, leaveStore>>

hrApproveReimbursement(p) ==
  /\ calls[p] = Idle
  /\ collections.reimbursements.status = "pending_hr"
  /\ calls' = [calls EXCEPT ![p] = [op |-> "hrApproveReimbursement", pc |-> "updateDoc"]]
  /\ UNCHANGED <<collections, leaveStore>>

(* updateDoc(reqRef, {status: 'approved', ...}) *)
hrApproveReimbursementUpdateDoc(p) ==
  /\ calls[p] # Idle
  /\ calls[p].op = "hrApproveReimbursement"
  /\ calls[p].pc = "updateDoc"
  /\ collections' = [collections EXCEPT !.reimbursements.status = "approved"]
  /\ calls' = [calls EXCEPT ![p] = Idle]
  /\ UNCHANGED leaveStore

hrRejectReimbursement ==
  /\ collections' = [collections EXCEPT !.reimbursements.status = "rejected"]
  /\ UNCHANGED <<calls, leaveStore>>

NextRequests ==
  \/ \E p \in Procs : approveMissedClockIn(p)
  \/ \E p \in Procs : approveMissedClockInSetDoc(p)
  \/ \E p \in Procs : approveMissedClockInUpdateDoc(p)
  \/ rejectMissedClockIn
  \/ \E p \in Procs : approveReimbursement(p)
  \/ \E p \in Procs : approveReimbursementUpdateDoc(p)
  \/ rejectReimbursement
  \/ \E p \in Procs : hrApproveReimbursement(p)
  \/ \E p \in Procs : hrApproveReimbursementUpdateDoc(p)
  \/ hrRejectReimbursement

InitRequests ==
  /\ collections = PendingRequests
  /\ calls = [p \in Procs |-> Idle]
  /\ leaves = <<>>
  /\ compOffBalance = [e \in Employees |-> 0]
  /\ annualLeaveBalance = [e \in Employees |-> 0]
  /\ lastDecision = <<>>
  /\ credited = <<>>
  /\ race = NoRace
  /\ preApprove = NoApprove
  /\ reply = NoReply

SpecRequests == InitRequests /\ [][NextRequests]_vars

(* ============================== claims ================================== *)
StoreUnchanged == UNCHANGED <<leaves, compOffBalance, annualLeaveBalance>>
Deducts(leave) == leave.leaveType \notin {"wfh", "extra_work", "menstrual", "bereavement"}

(* C1: after any sequence of operations every employee's compOffBalance and
   annualLeaveBalance are both at least 0 *)
C1_BalancesNonNegative ==
  \A e \in Employees : compOffBalance[e] >= 0 /\ annualLeaveBalance[e] >= 0

(* C2: a managerDecision or hrApproval that repeats the decision last made
   on the request fails with an error and changes neither the request nor
   a balance *)
C2_RepeatedDecisionRejected ==
  [][\A l \in LeaveIds, a \in BOOLEAN :
       /\ (\E u \in Managers : managerDecision(l, a, u))
            /\ lastDecision[l] = <<"managerDecision", a>>
          => /\ StoreUnchanged
             /\ EngineResponse(managerDecisionCall(l, a)) # "none"
       /\ \A o \in OverridePairs :
            hrApproval(l, a, o[1], o[2]) /\ lastDecision[l] = <<"hrApproval", a>>
            => /\ StoreUnchanged
               /\ EngineResponse(hrApprovalCall(l, a, o[1], o[2])) # "none"]_vars

(* C3: a rejected or cancelled request never changes status again, and an
   approved request changes status only to cancelled, by cancelLeaveRequest *)
C3_TerminalAbsorbing ==
  [][\A l \in 1..Len(leaves) :
       /\ leaves[l].status \in {"rejected", "cancelled"}
          => leaves'[l].status = leaves[l].status
       /\ leaves[l].status = "approved"
          => \/ leaves'[l].status = "approved"
             \/ leaves'[l].status = "cancelled" /\ cancelLeaveRequest(l)]_vars

(* C4: cancelLeaveRequest of an approved request of a deducting type adds
   exactly its compOffUsed and annualLeaveUsed to the employee's balances,
   and when it directly follows the HR approval of that request both
   balances are back at their values before the approval *)
C4_Reversal ==
  [][\A l \in LeaveIds :
       cancelLeaveRequest(l) /\ leaves[l].status = "approved" /\ Deducts(leaves[l])
       => LET e == leaves[l].employeeId
          IN /\ compOffBalance'[e] = compOffBalance[e] + leaves[l].compOffUsed
             /\ annualLeaveBalance'[e] = annualLeaveBalance[e] + leaves[l].annualLeaveUsed
             /\ leaves'[l].status = "cancelled"
             /\ preApprove.leaveId = l
                => /\ compOffBalance'[e] = preApprove.emp.compOffBalance
                   /\ annualLeaveBalance'[e] = preApprove.emp.annualLeaveBalance]_vars

(* an approve-then-cancel round trip of a request that drew on both sources *)
C4_Witness ==
  /\ preApprove.leaveId # 0
  /\ preApprove.cancelled
  /\ leaves[preApprove.leaveId].status = "cancelled"
  /\ Deducts(leaves[preApprove.leaveId])
  /\ leaves[preApprove.leaveId].compOffUsed > 0
  /\ leaves[preApprove.leaveId].annualLeaveUsed > 0

(* the example of the deduction rules, in half-days: balances 3/10 days and
   a request of 5 days with both sources selected *)
ExampleEmployee == [compOffBalance |-> 6, annualLeaveBalance |-> 20]
ExampleLeave ==
  [employeeId |-> "emp1", leaveType |-> "casual", startDate |-> 1, endDate |-> 5,
   totalDays |-> 10, isHalfDay |-> FALSE,
   selectedSources |-> [compOff |-> TRUE, annualLeave |-> TRUE],
   compOffUsed |-> 0, annualLeaveUsed |-> 0, managerId |-> "mgr1",
   status |-> "pending_hr", hrOverride |-> FALSE]

(* C5: an HR approval without override of a request of a deducting type
   records compOffUsed = min(compOffBalance, totalDays) when comp-off is
   selected and the balance positive (else 0), annualLeaveUsed =
   min(annualLeaveBalance, totalDays - compOffUsed) when annual leave is
   selected and days remain (else 0), and subtracts both from the balances;
   balances 3/10 and 5 days with both sources give 3 and 2, leaving 0/8 *)
C5_DeductionOrdering ==
  [][/\ \A l \in LeaveIds :
          /\ \/ hrApproval(l, TRUE, Absent, Absent)
             \/ \E p \in Session : slackRunTransaction(p) /\ calls[p].leaveId = l
          /\ Deducts(leaves[l])
          => LET e == leaves[l].employeeId
                 days == leaves[l].totalDays
                 c == IF leaves[l].selectedSources.compOff /\ compOffBalance[e] > 0
                      THEN Min(compOffBalance[e], days) ELSE 0
                 a == IF leaves[l].selectedSources.annualLeave /\ days - c > 0
                      THEN Min(annualLeaveBalance[e], days - c) ELSE 0
             IN /\ leaves'[l].status = "approved"
                /\ leaves'[l].compOffUsed = c
                /\ leaves'[l].annualLeaveUsed = a
                /\ compOffBalance'[e] = compOffBalance[e] - c
                /\ annualLeaveBalance'[e] = annualLeaveBalance[e] - a
     /\ LET r == hrApprovalTxn(ExampleLeave, ExampleEmployee, TRUE, Absent, Absent)
        IN /\ r.leave.compOffUsed = 6
           /\ r.leave.annualLeaveUsed = 4
           /\ r.emp = [compOffBalance |-> 0, annualLeaveBalance |-> 16]]_vars

(* an HR approval without override has just drawn on both sources *)
C5_Witness ==
  /\ preApprove.leaveId # 0
  /\ ~preApprove.cancelled
  /\ Deducts(leaves[preApprove.leaveId])
  /\ ~leaves[preApprove.leaveId].hrOverride
  /\ leaves[preApprove.leaveId].compOffUsed > 0
  /\ leaves[preApprove.leaveId].annualLeaveUsed > 0
  /\ compOffBalance["emp1"] = preApprove.emp.compOffBalance
                                - leaves[preApprove.leaveId].compOffUsed

(* C6: an approved extra_work request has been credited to compOffBalance
   exactly once, totalDays in total *)
C6_CreditedOnce ==
  \A l \in 1..Len(leaves) :
    leaves[l].leaveType = "extra_work" /\ leaves[l].status = "approved"
    => credited[l] = leaves[l].totalDays

(* the store after the two approvals of a race, run one after the other
   from the state the race started in *)
RaceOutcome == [leaves |-> leaves, emp |-> EmpDoc(leaves[race.a.leaveId].employeeId)]
RaceOver == race.on /\ race.done = {race.pa, race.pb}

ApplyAlone(baseLeaves, baseEmp, call) ==
  LET r == TxnBody([call EXCEPT !.snapLeave = baseLeaves[call.leaveId],
                                !.snapEmp = baseEmp])
  IN [leaves |-> [baseLeaves EXCEPT ![call.leaveId] = r.leave], emp |-> r.emp]

Serial(first, second) ==
  LET s1 == ApplyAlone(race.baseLeaves, race.baseEmp, first)
  IN ApplyAlone(s1.leaves, s1.emp, second)

(* C7: after two concurrent HR approvals of two different pending_hr
   requests of one employee, the balances and both requests are those of
   the two approvals run one after the other, in one of the two orders *)
C7_NoLostUpdate ==
  RaceOver /\ race.a.leaveId # race.b.leaveId
  => RaceOutcome \in {Serial(race.a, race.b), Serial(race.b, race.a)}

(* two concurrent approvals of different requests have both committed, and
   each moved a balance *)
C7_Witness ==
  /\ RaceOver
  /\ race.a.leaveId # race.b.leaveId
  /\ \A l \in {race.a.leaveId, race.b.leaveId} :
       /\ leaves[l].status = "approved"
       /\ leaves[l].compOffUsed + leaves[l].annualLeaveUsed > 0
  /\ ApplyAlone(race.baseLeaves, race.baseEmp, race.a).emp # RaceOutcome.emp
  /\ ApplyAlone(race.baseLeaves, race.baseEmp, race.b).emp # RaceOutcome.emp

(* C8: after two concurrent HR approvals of the same pending_hr request
   exactly one has applied: the balances and the request are those of one
   of the two approvals run alone *)
C8_ExactlyOneApplies ==
  RaceOver /\ race.a.leaveId = race.b.leaveId
  => RaceOutcome \in {ApplyAlone(race.baseLeaves, race.baseEmp, race.a),
                      ApplyAlone(race.baseLeaves, race.baseEmp, race.b)}

(* C9: managerDecision called by a manager who is not the managerId of the
   request fails with an error and changes neither the request nor a
   balance *)
C9_OnlyAssignedManager ==
  [][\A l \in LeaveIds, a \in BOOLEAN, u \in UserIds :
       managerDecision(l, a, u) /\ leaves[l].managerId # u
       => /\ StoreUnchanged
          /\ EngineResponse(managerDecisionCall(l, a)) # "none"]_vars

(* C10: with a signing secret configured, no request whose signature header
   is not the HMAC of its timestamp and body gets past authentication to
   the decision logic *)
C10_BadSignatureRejected ==
  \A p \in Procs : calls[p] # Idle /\ calls[p].op = "slack" => calls[p].sigOk

(* ---------------------- the Slack endpoint's guards -------------------- *)
TooOld(req) ==
  /\ req.timestamp # Absent
  /\ req.timestamp[1] > ReplayWindow \/ req.timestamp[1] < 0 - ReplayWindow

(* a decision click that got past authentication and the payload checks on
   a request that exists *)
IsDecision(req) ==
  /\ req.method = "POST"
  /\ Authenticate(req) = "pass"
  /\ req.body.payload = "block_actions"
  /\ LeaveExists(req.body.leaveId)

Linked(req) == \E u \in UserIds : SlackMemberId(u) = req.body.slackUserId
Actor(req) == CHOOSE u \in UserIds : SlackMemberId(u) = req.body.slackUserId
Authorised(req) ==
  /\ Linked(req)
  /\ req.body.approvalType = "manager"
     => Actor(req) = leaves[req.body.leaveId].managerId
  /\ req.body.approvalType = "hr" => Role(Actor(req)) = "hr_admin"
StageStatus(req) ==
  IF req.body.approvalType = "manager" THEN "pending_manager" ELSE "pending_hr"
Answered == reply.respond # "none"

(* C11: a POST whose timestamp is more than 300 seconds from now is answered
   403 'Request too old', whatever its signature, before the request or the
   user is looked up, and so never reaches a write *)
C11_ReplayRejected ==
  \A req \in Requests :
    req.method = "POST" /\ TooOld(req)
    => Decide(req).respond = "403 Request too old"

(* a validly signed click of the assigned manager on a pending_manager
   request, 301 seconds old, has been answered 403 *)
C11_Witness ==
  /\ Answered
  /\ reply.respond = "403 Request too old"
  /\ reply.req.timestamp = <<ReplayWindow + 1>>
  /\ reply.req.signingSecret # Undefined
  /\ SignatureMatches(reply.req)
  /\ reply.req.body.payload = "block_actions"
  /\ Authorised(reply.req)
  /\ leaves[reply.req.body.leaveId].status = StageStatus(reply.req)

(* C12: the endpoint goes on to a decision only for an actor authorised for
   its stage: the request's managerId at the manager stage, an hr_admin at
   the HR stage; every other click is answered without a write *)
C12_GatewayAuthorisation ==
  \A req \in Requests : Decide(req).respond = "none" => Authorised(req)

(* a manager-stage click by a manager who is not the request's managerId,
   on a pending_manager request, has been answered without a write *)
C12_Witness ==
  /\ Answered
  /\ reply.respond = "200 not the assigned manager"
  /\ Linked(reply.req)
  /\ Role(Actor(reply.req)) = "manager"
  /\ leaves[reply.req.body.leaveId].status = "pending_manager"

(* C13: a decision click of an authorised actor that arrives when the
   request's status is not the one of its stage is answered 'already
   processed' and goes on to no write *)
C13_AlreadyProcessed ==
  \A req \in Requests :
    /\ IsDecision(req)
    /\ Authorised(req)
    /\ leaves[req.body.leaveId].status # StageStatus(req)
    => Decide(req).respond = "200 already processed"

(* an HR-stage approve click of an hr_admin on an approved request has been
   answered 'already processed' *)
C13_Witness ==
  /\ Answered
  /\ reply.respond = "200 already processed"
  /\ reply.req.body.approvalType = "hr"
  /\ reply.req.body.decision = "approve"
  /\ leaves[reply.req.body.leaveId].status = "approved"

(* C14: a decision click from a Slack user id that belongs to no user is
   answered 'not linked' and goes on to no write *)
C14_NotLinked ==
  \A req \in Requests :
    IsDecision(req) /\ ~Linked(req) => Decide(req).respond = "200 not linked"

(* a click from an unknown Slack id on a pending request has been answered
   'not linked' *)
C14_Witness ==
  /\ Answered
  /\ reply.respond = "200 not linked"
  /\ reply.req.body.slackUserId = "U_unknown"
  /\ leaves[reply.req.body.leaveId].status = StageStatus(reply.req)

(* C16: every response of the endpoint to a POST carries status code 200 *)
C16_AlwaysOk ==
  \A req \in Requests :
    req.method = "POST" => StatusCode(Decide(req).respond) = 200

(* what the engine makes of a decision on a request, without override *)
EngineOutcome(approvalType, leave, emp, approved) ==
  IF approvalType = "manager"
  THEN managerDecisionTxn(leave, emp, approved)
  ELSE hrApprovalTxn(leave, emp, approved, Absent, Absent)

(* C15: a decision the Slack endpoint writes on a request that is in the
   status of its stage leaves the request's status, compOffUsed and
   annualLeaveUsed and the employee's balances as managerDecision or
   hrApproval without override would *)
C15_GatewayAsEngine ==
  [][\A p \in Session :
       /\ slackUpdateDoc(p) \/ slackRunTransaction(p)
       /\ leaves[calls[p].leaveId].status =
            (IF calls[p].approvalType = "manager" THEN "pending_manager" ELSE "pending_hr")
       => LET l == calls[p].leaveId
              e == leaves[l].employeeId
              r == EngineOutcome(calls[p].approvalType, leaves[l], EmpDoc(e),
                                 calls[p].approved)
          IN /\ leaves'[l].status = r.leave.status
             /\ leaves'[l].compOffUsed = r.leave.compOffUsed
             /\ leaves'[l].annualLeaveUsed = r.leave.annualLeaveUsed
             /\ compOffBalance'[e] = r.emp.compOffBalance
             /\ annualLeaveBalance'[e] = r.emp.annualLeaveBalance]_vars

(* -------------------------- menstrual requests ------------------------- *)
SameMonth(d1, d2) == StartOfMonth(d1) = StartOfMonth(d2)
ActiveStatuses == {"approved", "pending_manager", "pending_hr"}
IsActiveMenstrual(leave) ==
  leave.leaveType = "menstrual" /\ leave.status \in ActiveStatuses

(* C17: a menstrual request is refused with the validation error exactly
   when the employee has a menstrual request in status approved,
   pending_manager or pending_hr whose start date is in the same calendar
   month; with the earlier one in another month it is accepted *)
C17_OnePerMonthValidated ==
  \A f \in MenstrualForms, tz \in TimeZones :
    LET earlier == \E i \in 1..Len(leaves) :
                      /\ leaves[i].employeeId = RichEmployee.uid
                      /\ IsActiveMenstrual(leaves[i])
                      /\ SameMonth(leaves[i].startDate, f.startDate)
    IN SubmitResult(f, RichEmployee, tz).err =
         IF earlier THEN "You have already applied for Menstrual Leave this month."
         ELSE "none"

(* C18: an employee never has two menstrual requests in status approved,
   pending_manager or pending_hr with start dates in one calendar month *)
C18_OneActivePerMonth ==
  \A i, j \in 1..Len(leaves) :
    /\ i # j
    /\ leaves[i].employeeId = leaves[j].employeeId
    /\ IsActiveMenstrual(leaves[i])
    /\ IsActiveMenstrual(leaves[j])
    => ~SameMonth(leaves[i].startDate, leaves[j].startDate)

(* C19: every step that changes a balance of an employee also changes the
   status of one of that employee's leave requests *)
C19_BalanceChangesWithStatus ==
  [][\A e \in Employees :
       \/ compOffBalance'[e] # compOffBalance[e]
       \/ annualLeaveBalance'[e] # annualLeaveBalance[e]
       => \E l \in 1..Len(leaves) :
            /\ leaves[l].employeeId = e
            /\ leaves'[l].status # leaves[l].status]_vars

(* C20: managerDecision, hrApproval and cancelLeaveRequest reject with a
   not-found error when the request does not exist, and their transactions
   throw, writing nothing, when the employee document of the request does
   not exist *)
C20_NotFoundSurfaced ==
  /\ \A l \in LeaveIds, a \in BOOLEAN :
       ~LeaveExists(l)
       => /\ EngineResponse(managerDecisionCall(l, a)) = "Leave request not found"
          /\ EngineResponse(hrApprovalCall(l, a, Absent, Absent)) = "Leave request not found"
          /\ EngineResponse(cancelLeaveRequestCall(l)) = "Leave request not found"
  /\ \A l \in 1..Len(leaves), a \in BOOLEAN :
       /\ managerDecisionTxn(leaves[l], NoDoc, a).err # "none"
       /\ hrApprovalTxn(leaves[l], NoDoc, a, Absent, Absent).err # "none"
       /\ cancelLeaveRequestTxn(leaves[l], NoDoc).err # "none"

(* C21: every request of a type other than extra_work that is approved went
   through pending_manager and then pending_hr: no step takes such a request
   from pending_manager directly to approved *)
C21_NoDirectApproval ==
  [][\A l \in 1..Len(leaves) :
       leaves[l].status = "pending_manager" /\ leaves[l].leaveType # "extra_work"
       => leaves'[l].status # "approved"]_vars

(* C22: an HR approval with override amounts approves the request with
   compOffUsed and annualLeaveUsed equal to the override amounts (an omitted
   one is 0), sets hrOverride, and takes exactly these amounts from the
   balances, whatever the selected sources, for every type but wfh and
   extra_work *)
Amount(override) == IF override = Absent THEN 0 ELSE override[1]

C22_OverrideVerbatim ==
  [][\A p \in Session :
       /\ runTransaction(p)
       /\ calls[p].op = "hrApproval"
       /\ calls[p].call.approved
       /\ <<calls[p].call.overrideCompOff, calls[p].call.overrideAnnualLeave>>
            # <<Absent, Absent>>
       /\ LeaveExists(calls[p].call.leaveId)
       /\ leaves[calls[p].call.leaveId].leaveType \notin {"wfh", "extra_work"}
       => LET l == calls[p].call.leaveId
              e == leaves[l].employeeId
              compOff == Amount(calls[p].call.overrideCompOff)
              annualLeave == Amount(calls[p].call.overrideAnnualLeave)
          IN /\ leaves'[l].status = "approved"
             /\ leaves'[l].compOffUsed = compOff
             /\ leaves'[l].annualLeaveUsed = annualLeave
             /\ leaves'[l].hrOverride
             /\ compOffBalance'[e] = compOffBalance[e] - compOff
             /\ annualLeaveBalance'[e] = annualLeaveBalance[e] - annualLeave]_vars

(* an override of one day of comp-off was applied to a request that did not
   select comp-off, by an employee who had less than that *)
C22_Witness ==
  /\ preApprove.leaveId # 0
  /\ LET l == preApprove.leaveId
     IN /\ leaves[l].status = "approved"
        /\ leaves[l].hrOverride
        /\ leaves[l].compOffUsed = 2
        /\ ~leaves[l].selectedSources.compOff
        /\ preApprove.emp.compOffBalance < 2
        /\ compOffBalance[leaves[l].employeeId] = preApprove.emp.compOffBalance - 2

(* C23: an HR approval of a wfh request, or of a menstrual or bereavement
   request without override amounts, by the engine or by the Slack endpoint,
   sets the status to approved, changes no balance and leaves compOffUsed
   and annualLeaveUsed at 0 *)
C23_NoDeductionApproval ==
  [][\A l \in 1..Len(leaves) :
       /\ leaves[l].leaveType \in {"wfh", "menstrual", "bereavement"}
       /\ \/ hrApproval(l, TRUE, Absent, Absent)
          \/ \E p \in Session :
               /\ calls[p] # Idle
               /\ calls[p].op = "slack"
               /\ calls[p].leaveId = l
               /\ slackRunTransaction(p)
       => /\ leaves'[l].status = "approved"
          /\ UNCHANGED <<compOffBalance, annualLeaveBalance>>
          /\ leaves'[l].compOffUsed = 0
          /\ leaves'[l].annualLeaveUsed = 0]_vars

(* C24: a rejection at either stage, a manager approval of a request that is
   not extra_work, and a cancellation of a request that is not approved
   change no balance *)
C24_NoBalanceChange ==
  [][\A p \in Session :
       \/ /\ runTransaction(p)
          /\ LeaveExists(calls[p].call.leaveId)
          /\ \/ calls[p].op \in {"managerDecision", "hrApproval"} /\ ~calls[p].call.approved
             \/ /\ calls[p].op = "managerDecision"
                /\ leaves[calls[p].call.leaveId].leaveType # "extra_work"
             \/ /\ calls[p].op = "cancelLeaveRequest"
                /\ leaves[calls[p].call.leaveId].status # "approved"
       \/ slackUpdateDoc(p)
       => UNCHANGED <<compOffBalance, annualLeaveBalance>>]_vars

(* a request that deducts was rejected by HR, and another was sent on to HR
   by its manager, while the employee had days to take *)
C24_Witness ==
  \E l \in 1..Len(leaves) :
    /\ Deducts(leaves[l])
    /\ leaves[l].totalDays > 0
    /\ annualLeaveBalance[leaves[l].employeeId] > 0
    /\ lastDecision[l] \in {<<"hrApproval", FALSE>>, <<"managerDecision", TRUE>>}

(* C25: a notification is sent only once the write of its call has
   committed, and sending it, delivered or not, changes neither the
   requests nor the balances *)
C25_NotifyAfterCommit ==
  [][\A p \in Session :
       (\E delivered \in BOOLEAN : sendSlackNotification(p, delivered))
       => /\ calls[p].committed
          /\ StoreUnchanged]_vars

(* an HR approval has returned after its notification failed, and the
   request is approved *)
C25_Witness ==
  \E p \in Session :
    /\ calls[p] # Idle
    /\ calls[p].op = "hrApproval"
    /\ calls[p].pc = "return"
    /\ calls[p].delivered = "failed"
    /\ calls[p].committed
    /\ leaves[calls[p].call.leaveId].status = "approved"
    /\ lastDecision[calls[p].call.leaveId] = <<"hrApproval", TRUE>>

(* C26: a call of submitLeaveRequest, managerDecision or hrApproval whose
   write has committed reports success, whatever fails while its
   notification is prepared and sent *)
C26_CommittedCallSucceeds ==
  \A p \in Session :
    /\ calls[p] # Idle
    /\ calls[p].op \in {"submitLeaveRequest", "managerDecision", "hrApproval"}
    /\ calls[p].pc = "return"
    /\ calls[p].committed
    => calls[p].error = "none"

(* C27: submitLeaveRequest for a type that deducts fails with the
   insufficient-balance error, creating no request, when the employee's
   balances of the selected sources add up to less than totalDays; for wfh,
   extra_work, menstrual and bereavement the balances are not checked *)
Insufficient == "Insufficient leave balance for the selected leave sources"

SelectedBalance(formData, employee) ==
  (IF formData.useCompOff THEN employee.compOffBalance ELSE 0)
  + (IF formData.useAnnualLeave THEN employee.annualLeaveBalance ELSE 0)

C27_BalanceCheck ==
  [][\A p \in Session :
       /\ /\ calls[p] = Idle
          /\ calls'[p] # Idle
          /\ calls'[p].op = "submitLeaveRequest"
          => LET f == calls'[p].call.formData
                 e == calls'[p].call.employee
             IN /\ /\ f.leaveType \notin {"wfh", "extra_work", "menstrual", "bereavement"}
                   /\ SelectedBalance(f, e)
                        < calculateLeaveDays(f.startDate, f.endDate, f.isHalfDay,
                                             calls'[p].call.tz)
                   => /\ calls'[p].pc = "return"
                      /\ calls'[p].error = Insufficient
                      /\ ~calls'[p].committed
                      /\ StoreUnchanged
                /\ f.leaveType \in {"wfh", "extra_work", "menstrual", "bereavement"}
                   => calls'[p].error # Insufficient
       /\ /\ calls[p] # Idle
          /\ calls[p].op = "submitLeaveRequest"
          /\ calls[p].error # "none"
          => leaves' = leaves]_vars

(* a one-day casual request on both sources was refused to an employee whose
   two balances add up to half a day, and nothing was stored *)
C27_Witness ==
  \E p \in Session :
    /\ calls[p] # Idle
    /\ calls[p].op = "submitLeaveRequest"
    /\ calls[p].pc = "return"
    /\ calls[p].error = Insufficient
    /\ calls[p].call.formData.useCompOff
    /\ calls[p].call.formData.useAnnualLeave
    /\ SelectedBalance(calls[p].call.formData, calls[p].call.employee) = 1
    /\ leaves = <<>>

(* C28: compOffUsed and annualLeaveUsed of a request are 0 when it is
   submitted, change only in a step that approves it for HR, and once they
   hold an amount no later step changes them *)
Used(leave) == <<leave.compOffUsed, leave.annualLeaveUsed>>

C28_UsedSetOnce ==
  [][/\ \A l \in 1..Len(leaves') :
          l > Len(leaves) => Used(leaves'[l]) = <<0, 0>>
     /\ \A l \in 1..Len(leaves) :
          Used(leaves'[l]) # Used(leaves[l])
          => /\ Used(leaves[l]) = <<0, 0>>
             /\ leaves'[l].status = "approved"
             /\ leaves[l].status # "approved"]_vars

(* C29: every step that changes a balance of an employee belongs to a call
   that goes on to add its audit-log entry, for that employee, with the
   balance before and the balance after *)
C29_BalanceChangeLogged ==
  [][\A e \in Employees :
       \/ compOffBalance'[e] # compOffBalance[e]
       \/ annualLeaveBalance'[e] # annualLeaveBalance[e]
       => \E p \in Session :
            /\ calls'[p] # Idle
            /\ calls'[p].pc = "createAuditLog"
            /\ calls'[p].call.userId = e
            /\ <<calls'[p].call.previousBalance, calls'[p].call.newBalance>>
                 \in {<<compOffBalance[e], compOffBalance'[e]>>,
                      <<annualLeaveBalance[e], annualLeaveBalance'[e]>>}]_vars

(* C30: a stored menstrual request is a single day: its endDate is its
   startDate and its totalDays is at most one day *)
C30_MenstrualSingleDay ==
  \A l \in 1..Len(leaves) :
    leaves[l].leaveType = "menstrual"
    => /\ leaves[l].endDate = leaves[l].startDate
       /\ leaves[l].totalDays <= 2

(* C31: calculateLeaveDays returns the number of days from Monday to Friday
   among the dates from startDate to endDate, both included (none when
   endDate is before startDate), and half a day whenever the half-day flag
   is set *)
MondayToFriday(startDate, endDate) ==
  Cardinality({d \in startDate..endDate : DayOfWeek(d) \in 1..5})

C31_WeekdaysCounted ==
  \A p \in Session :
    calls[p] # Idle /\ calls[p].op = "calculateLeaveDays"
    => calls[p].days = IF calls[p].isHalfDay THEN 1
                       ELSE 2 * MondayToFriday(calls[p].startDate, calls[p].endDate)

(* C32: without manual adjustments, in every reachable state the comp-off
   balance of an employee is the initial one plus the totalDays of the
   employee's approved extra_work requests minus the compOffUsed of the
   employee's approved requests, and the annual-leave balance is the
   initial one minus the annualLeaveUsed of the employee's approved
   requests *)
RECURSIVE SumApproved(_, _, _)
SumApproved(e, Amt(_), n) ==
  IF n = 0 THEN 0
  ELSE (IF leaves[n].employeeId = e /\ leaves[n].status = "approved"
        THEN Amt(leaves[n]) ELSE 0)
       + SumApproved(e, Amt, n - 1)

CreditOf(leave) == IF leave.leaveType = "extra_work" THEN leave.totalDays ELSE 0
CompOffUsedOf(leave) == leave.compOffUsed
AnnualLeaveUsedOf(leave) == leave.annualLeaveUsed

C32_LedgerConservation ==
  \A e \in Employees :
    /\ compOffBalance[e] = InitialBalance + SumApproved(e, CreditOf, Len(leaves))
                             - SumApproved(e, CompOffUsedOf, Len(leaves))
    /\ annualLeaveBalance[e] = InitialBalance
                                 - SumApproved(e, AnnualLeaveUsedOf, Len(leaves))

(* C33: of the cancellations of an approved request, one after the other or
   at once, the one that commits while the request is approved gives
   compOffUsed and annualLeaveUsed back to the balances and makes the
   request cancelled; every later one changes no balance *)
C33_CancelIdempotent ==
  [][\A p \in Procs :
       /\ calls[p] # Idle
       /\ calls[p].op = "cancelLeaveRequest"
       /\ TxnCommit(p)
       => LET l == calls[p].leaveId
              e == leaves[l].employeeId
          IN /\ leaves'[l].status = "cancelled"
             /\ IF leaves[l].status = "approved"
                THEN /\ compOffBalance'[e] = compOffBalance[e] + leaves[l].compOffUsed
                     /\ annualLeaveBalance'[e]
                          = annualLeaveBalance[e] + leaves[l].annualLeaveUsed
                ELSE UNCHANGED <<compOffBalance, annualLeaveBalance>>]_vars

(* the request that had used days is cancelled and its days are back, while
   a second cancellation that read it as approved is still to commit *)
C33_Witness ==
  \E p \in Procs :
    /\ calls[p] # Idle
    /\ calls[p].op = "cancelLeaveRequest"
    /\ calls[p].pc = "commit"
    /\ calls[p].snapLeave.status = "approved"
    /\ leaves[calls[p].leaveId].status = "cancelled"
    /\ leaves[calls[p].leaveId].compOffUsed + leaves[calls[p].leaveId].annualLeaveUsed > 0
    /\ preApprove.cancelled
    /\ compOffBalance["emp1"] = preApprove.emp.compOffBalance
    /\ annualLeaveBalance["emp1"] = preApprove.emp.annualLeaveBalance

(* C34: the cancellation of an approved extra_work request makes it
   cancelled and changes no balance: the comp-off credited at the approval
   stays *)
C34_CreditKept ==
  [][\A p \in Session :
       /\ runTransaction(p)
       /\ calls[p].op = "cancelLeaveRequest"
       /\ LeaveExists(calls[p].call.leaveId)
       /\ leaves[calls[p].call.leaveId].status = "approved"
       /\ leaves[calls[p].call.leaveId].leaveType = "extra_work"
       => /\ leaves'[calls[p].call.leaveId].status = "cancelled"
          /\ UNCHANGED <<compOffBalance, annualLeaveBalance>>]_vars

(* a cancellation has just committed on an extra_work request whose credit
   is in the balance *)
C34_Witness ==
  \E p \in Session :
    /\ calls[p] # Idle
    /\ calls[p].op = "cancelLeaveRequest"
    /\ calls[p].pc = "return"
    /\ calls[p].committed
    /\ leaves[calls[p].call.leaveId].leaveType = "extra_work"
    /\ leaves[calls[p].call.leaveId].status = "cancelled"
    /\ credited[calls[p].call.leaveId] = leaves[calls[p].call.leaveId].totalDays
    /\ compOffBalance[leaves[calls[p].call.leaveId].employeeId]
         >= credited[calls[p].call.leaveId]

(* C35: an HR approval without override of a pending_hr request of a
   deducting type approves it, takes the used days off the balances, never
   uses more than totalDays, and uses exactly totalDays exactly when the
   balances of the selected sources add up to at least totalDays *)
Covers(leave, e) ==
  (IF leave.selectedSources.compOff THEN compOffBalance[e] ELSE 0)
  + (IF leave.selectedSources.annualLeave THEN annualLeaveBalance[e] ELSE 0)
    >= leave.totalDays

C35_BestEffortDeduction ==
  [][\A l \in 1..Len(leaves) :
       /\ leaves[l].status = "pending_hr"
       /\ Deducts(leaves[l])
       /\ hrApproval(l, TRUE, Absent, Absent)
       => LET e == leaves[l].employeeId
              used == leaves'[l].compOffUsed + leaves'[l].annualLeaveUsed
          IN /\ leaves'[l].status = "approved"
             /\ compOffBalance'[e] = compOffBalance[e] - leaves'[l].compOffUsed
             /\ annualLeaveBalance'[e] = annualLeaveBalance[e] - leaves'[l].annualLeaveUsed
             /\ used <= leaves[l].totalDays
             /\ used = leaves[l].totalDays <=> Covers(leaves[l], e)]_vars

(* C36: a POST without the x-slack-request-timestamp header is answered
   "403 Request too old", and no decision is started for it *)
C36_NoTimestampRejected ==
  [][\A req \in Requests :
       /\ req.method = "POST"
       /\ req.timestamp = Absent
       => /\ slackRespond(req) => reply'.respond = "403 Request too old"
          /\ \A p \in Session : ~slackInteract(p, req)]_vars

(* C37: the updateDoc of an adjustment leaves the balance at the balance its
   getDoc read, plus its amount, plus what the HR approvals and the
   cancellations have changed on that balance since the read *)
BalanceOf(op, userId) ==
  IF op = "adjustCompOffBalance" THEN compOffBalance[userId] ELSE annualLeaveBalance[userId]

C37_NoLostUpdate ==
  [][\A p \in Session :
       /\ calls[p] # Idle
       /\ calls[p].op \in AdjustOps
       /\ updateDoc(p)
       => LET c == calls[p].call
              initial == c.previousBalance
              amount == c.newBalance - c.previousBalance
              delta == BalanceOf(calls[p].op, c.userId) - initial
          IN BalanceOf(calls[p].op, c.userId)' = initial + amount + delta]_vars

(* C38: an adjustment whose amount would bring the balance below 0 is
   rejected with no write and no audit-log entry; any other adjustment
   changes the balance by its amount, and never to below 0 *)
C38_AdjustGuard ==
  [][\A p \in Session :
       /\ \A op \in AdjustOps, u \in Employees, amt \in AdjustAmounts :
            adjustStart(p, op, u, amt)
            => /\ UNCHANGED <<compOffBalance, annualLeaveBalance>>
               /\ calls'[p].auditLogs = <<>>
               /\ IF BalanceOf(op, u) + amt < 0
                  THEN /\ calls'[p].pc = "return"
                       /\ calls'[p].error = "Cannot reduce balance below 0"
                  ELSE /\ calls'[p].pc = "updateDoc"
                       /\ calls'[p].error = "none"
       /\ /\ calls[p] # Idle
          /\ calls[p].op \in AdjustOps
          /\ updateDoc(p)
          => LET c == calls[p].call
                 amount == c.newBalance - c.previousBalance
             IN /\ BalanceOf(calls[p].op, c.userId)'
                     = BalanceOf(calls[p].op, c.userId) + amount
                /\ BalanceOf(calls[p].op, c.userId)' >= 0]_vars

(* C39: once the missedClockIns request or the reimbursements request is
   approved or rejected, no step changes its status *)
C39_DecidedOnce ==
  [][/\ collections.missedClockIns.status \in {"approved", "rejected"}
        => collections'.missedClockIns.status = collections.missedClockIns.status
     /\ collections.reimbursements.status \in {"approved", "rejected"}
        => collections'.reimbursements.status = collections.reimbursements.status]_vars

====
